---- MODULE Spec2Model ----
(***************************************************************************)
(* Model of AiSdkService.streamMessage (src/src/main/ai-sdk.service.ts)    *)
(* and AiSdkError (src/src/errors/ai-sdk.error.ts).                        *)
(*                                                                         *)
(* JavaScript strings are sequences of atoms: an atom is a TLA+ string     *)
(* standing for an indivisible run of non-whitespace text, and " " is one  *)
(* whitespace character.  A template literal is the concatenation of its   *)
(* literal parts and of the string forms of its holes.                     *)
(* JavaScript values are tagged tuples: <<"undefined">>, <<"null">>,       *)
(* <<"string", s>>, <<"array", a>>, <<"object", o>>, <<"error", rec>>.     *)
(***************************************************************************)
EXTENDS Integers, Sequences, FiniteSets, TLC

VARIABLES ids, gen, now, service, calls

vars == <<ids, gen, now, service, calls>>

-----------------------------------------------------------------------------
(* Bounds of the model *)

MaxPrimary == 2

MaxSecondary == 2

\* messages of a conversation history
MaxHistory == 2

\* entries of a contextData object
MaxKeys == 2

\* declared tools of a request
MaxTools == 2

\* calls of execute that are followed per invocation
MaxExecutes == 2

\* changes the caller makes to its contextData object per invocation
MaxMutations == 1

MaxToolCalls == 1

\* calls of AiSdkError.fromError and of jsonSchemaToZod that are followed
MaxCalls == 2

-----------------------------------------------------------------------------
(* JavaScript values *)

Undefined == <<"undefined">>

Null == <<"null">>

Str(s) == <<"string", s>>

Arr(a) == <<"array", a>>

IsString(v) == v[1] = "string"

IsArray(v) == v[1] = "array"

InstanceOfError(v) == v[1] = "error"

InstanceOfAiSdkError(v) == v[1] = "error" /\ v[2].kind = "AiSdkError"

Num(n) == <<"number", n>>

Bool(b) == <<"boolean", b>>

\* JavaScript truthiness of a value: undefined, null, "", 0 and false are
\* falsy; arrays and objects, the empty ones too, are truthy.
Truthy(v) ==
    CASE v[1] = "undefined" -> FALSE
      [] v[1] = "null" -> FALSE
      [] v[1] = "string" -> v[2] # <<>>
      [] v[1] = "number" -> v[2] # 0
      [] v[1] = "boolean" -> v[2]
      [] OTHER -> TRUE

\* Object.create(null): an object without prototype, hence without toString
BareObject == <<"bareObject">>

\* String(v) throws a TypeError for an object that has no conversion to a
\* primitive; every other value of the model has a string form
HasStringForm(v) == v[1] # "bareObject"

\* String(v) for the values that have a string form; an array is the string
\* forms of its elements joined by ","
RECURSIVE StringOf(_)
StringOf(v) ==
    CASE v[1] = "undefined" -> <<"undefined">>
      [] v[1] = "null" -> <<"null">>
      [] v[1] = "string" -> v[2]
      [] v[1] = "number" -> <<ToString(v[2])>>
      [] v[1] = "boolean" -> IF v[2] THEN <<"true">> ELSE <<"false">>
      [] v[1] = "array" ->
            IF v[2] = <<>> THEN <<>>
            ELSE IF Len(v[2]) = 1 THEN StringOf(v[2][1])
            ELSE StringOf(v[2][1]) \o <<",">> \o StringOf(Arr(Tail(v[2])))
      [] v[1] = "error" -> <<v[2].name, ": ">> \o v[2].message
      [] OTHER -> <<"[object Object]">>

NumToString(n) == <<ToString(n)>>

IsSpace(c) == c = " "

RECURSIVE TrimStart(_)
TrimStart(s) ==
    IF s = <<>> THEN <<>>
    ELSE IF IsSpace(Head(s)) THEN TrimStart(Tail(s)) ELSE s

RECURSIVE TrimEnd(_)
TrimEnd(s) ==
    IF s = <<>> THEN <<>>
    ELSE IF IsSpace(s[Len(s)]) THEN TrimEnd(SubSeq(s, 1, Len(s) - 1)) ELSE s

\* String.prototype.trim
Trim(s) == TrimEnd(TrimStart(s))

\* Array.prototype.join
RECURSIVE Join(_, _)
Join(parts, sep) ==
    IF parts = <<>> THEN <<>>
    ELSE IF Len(parts) = 1 THEN parts[1]
    ELSE parts[1] \o sep \o Join(Tail(parts), sep)

\* String.prototype.includes
Includes(s, sub) ==
    \E k \in 0..(Len(s) - Len(sub)) : SubSeq(s, k + 1, k + Len(sub)) = sub

-----------------------------------------------------------------------------
(* AiSdkError *)

\* new AiSdkError(message, originalError, context); originalError and context
\* are <<>> when the argument is not passed, <<v>> otherwise.
NewAiSdkError(message, originalError, context, id) ==
    LET ownStack == <<"Error: ">> \o message \o <<"\n    at <frames>">>
        withOriginal ==
            IF originalError # <<>> /\ InstanceOfError(originalError[1])
                  /\ originalError[1][2].stack # <<>>
            THEN ownStack \o <<"\nOriginal error: ">> \o originalError[1][2].stack
            ELSE ownStack
    IN <<"error", [kind |-> "AiSdkError",
                   name |-> "AiSdkError",
                   message |-> message,
                   originalError |-> originalError,
                   context |-> context,
                   stack |-> withOriginal,
                   id |-> id]>>

\* A native Error created outside the service (by the provider).
NativeError(message, id) ==
    <<"error", [kind |-> "Error",
                name |-> "Error",
                message |-> message,
                originalError |-> <<>>,
                context |-> <<>>,
                stack |-> <<"Error: ">> \o message \o <<"\n    at <provider>">>,
                id |-> id]>>

\* AiSdkError.fromError(error, context)
fromError(error, context, id) ==
    IF InstanceOfAiSdkError(error)
    THEN error
    ELSE LET message == IF InstanceOfError(error) THEN error[2].message
                        ELSE StringOf(error)
         IN NewAiSdkError(message, <<error>>, context, id)

\* the TypeError of String(v) for a value without string form
TypeErrorNoPrimitive ==
    <<"error", [kind |-> "Error",
                name |-> "TypeError",
                message |-> <<"Cannot convert object to primitive value">>,
                originalError |-> <<>>,
                context |-> <<>>,
                stack |-> <<"TypeError: Cannot convert object to primitive value">>,
                id |-> 0]>>

\* Mutant: a classified error is wrapped like any other Error.
fromErrorCall_AlwaysWraps(error, context, id) ==
    IF InstanceOfError(error)
    THEN <<"returned", NewAiSdkError(error[2].message, <<error>>, context, id)>>
    ELSE IF HasStringForm(error)
         THEN <<"returned", NewAiSdkError(StringOf(error), <<error>>, context, id)>>
         ELSE <<"threw", TypeErrorNoPrimitive>>

\* a call of AiSdkError.fromError(error, context): what it returns, or what
\* it throws when String(error) throws
fromErrorCall(error, context, id) ==
    IF InstanceOfError(error) \/ HasStringForm(error)
    THEN <<"returned", fromError(error, context, id)>>
    ELSE <<"threw", TypeErrorNoPrimitive>>

\* Whether fromError allocates a new error object for this argument.
fromErrorAllocates(error) == ~InstanceOfAiSdkError(error)

ErrorMessage(e) == e[2].message

-----------------------------------------------------------------------------
(* Request parameters *)

USER == <<"user">>

COPILOT == <<"copilot">>

UserMessage == [type |-> USER, text |-> <<"hi">>]

CopilotMessage == [type |-> COPILOT, text |-> <<"hello", " ", "there">>]

\* a message whose type is no member of MessageType
OtherMessage == [type |-> <<"system">>, text |-> <<" ", "note", " ">>]

StringProperty == [type |-> <<"string">>, items |-> Undefined]

NumberArrayProperty == [type |-> <<"array">>, items |-> <<"object", [type |-> <<"number">>]>>]

\* a JSON schema object { type, properties, required }; an absent field is
\* undefined
Schema(type, properties, required) ==
    <<"object", [type |-> type, properties |-> properties, required |-> required]>>

ObjectSchema ==
    Schema(<<"string", <<"object">>>>,
           <<"object", << <<<<"symbol">>, StringProperty>>,
                          <<<<"tags">>, NumberArrayProperty>> >>>>,
           <<"array", << <<"symbol">> >>>>)

GetPrice == [name |-> <<"getPrice">>, description |-> <<"price">>, parameters |-> Undefined]

GetNews == [name |-> <<"getNews">>, description |-> <<"news">>, parameters |-> ObjectSchema]

\* a declared tool whose name is also the name of a property of Object.prototype
ToStringTool == [name |-> <<"toString">>, description |-> <<"text">>, parameters |-> Undefined]

\* A contextData object is the sequence of its entries in insertion order.
Obj(entries) == <<"object", entries>>

ObjectKeys(obj) == [k \in 1..Len(obj[2]) |-> obj[2][k][1]]

ObjectEntries(obj) == obj[2]

HasOwn(obj, key) == obj[1] = "object" /\ \E k \in 1..Len(obj[2]) : obj[2][k][1] = key

\* Properties every plain object inherits from Object.prototype.
ObjectPrototypeKeys ==
    { <<"constructor">>, <<"toString">>, <<"valueOf">>, <<"hasOwnProperty">> }

\* obj?.[key]: undefined for undefined and null; else the own property,
\* else the property inherited from Object.prototype, else undefined.
Lookup(obj, key) ==
    IF obj[1] # "object" THEN Undefined
    ELSE IF HasOwn(obj, key)
         THEN obj[2][CHOOSE k \in 1..Len(obj[2]) : obj[2][k][1] = key][2]
         ELSE IF key \in ObjectPrototypeKeys THEN <<"function", key>>
              ELSE Undefined

\* the caller's object after `obj[key] = value`: a present key keeps its place
SetKey(obj, key, value) ==
    IF HasOwn(obj, key)
    THEN Obj([k \in 1..Len(obj[2]) |->
                IF obj[2][k][1] = key THEN <<key, value>> ELSE obj[2][k]])
    ELSE Obj(Append(obj[2], <<key, value>>))

\* the caller's object after `delete obj[key]`
DeleteKey(obj, key) ==
    LET Keep(e) == e[1] # key
    IN Obj(SelectSeq(obj[2], Keep))

\* value?.length || 0
LengthOrZero(v) == IF IsArray(v) THEN Len(v[2]) ELSE 0

-----------------------------------------------------------------------------
(* Message list and tool mapping built by streamMessage before its try *)

ToolCallId(toolName) == <<"pre-fetched-">> \o toolName

\* Mutant: only a COPILOT message becomes an assistant turn.
HistoryTurn_CopilotOnly(msg) ==
    [role |-> IF msg.type = COPILOT THEN "assistant" ELSE "user",
     content |-> Str(msg.text)]

\* lines 35-38: one message of the history
HistoryTurn(msg) ==
    [role |-> IF msg.type = USER THEN "user" ELSE "assistant",
     content |-> Str(msg.text)]

ToolCallPart(toolName) ==
    [type |-> "tool-call",
     toolCallId |-> ToolCallId(toolName),
     toolName |-> toolName,
     args |-> <<"object", <<>>>>]

\* Mutant: a tool result gets an id of its own.
ToolResultTurn_OwnId(entry) ==
    [role |-> "tool",
     content |-> Arr(<< [type |-> "tool-result",
                         toolCallId |-> <<"result-">> \o entry[1],
                         toolName |-> entry[1],
                         result |-> entry[2]] >>)]

ToolResultTurn(entry) ==
    [role |-> "tool",
     content |-> Arr(<< [type |-> "tool-result",
                         toolCallId |-> ToolCallId(entry[1]),
                         toolName |-> entry[1],
                         result |-> entry[2]] >>)]

\* Mutant: the synthetic turns are pushed for an empty contextData object too.
BuildMessages_InjectOnEmpty(params) ==
    LET conversationHistory ==
            IF params.conversationHistory = Undefined THEN <<>>
            ELSE params.conversationHistory[2]
        base == [k \in 1..Len(conversationHistory) |-> HistoryTurn(conversationHistory[k])]
                  \o << [role |-> "user", content |-> Str(params.text)] >>
        contextData == params.contextData
    IN IF Truthy(contextData)
       THEN LET entries == ObjectEntries(contextData)
                toolCalls == [k \in 1..Len(entries) |-> ToolCallPart(entries[k][1])]
            IN base \o << [role |-> "assistant", content |-> Arr(toolCalls)] >>
                    \o [k \in 1..Len(entries) |-> ToolResultTurn(entries[k])]
       ELSE base

\* Mutant: the synthetic turns are put before the turn of the new user text.
BuildMessages_UserLast(params) ==
    LET conversationHistory ==
            IF params.conversationHistory = Undefined THEN <<>>
            ELSE params.conversationHistory[2]
        history == [k \in 1..Len(conversationHistory) |-> HistoryTurn(conversationHistory[k])]
        user == << [role |-> "user", content |-> Str(params.text)] >>
        contextData == params.contextData
    IN IF Truthy(contextData) /\ Len(ObjectKeys(contextData)) > 0
       THEN LET entries == ObjectEntries(contextData)
                toolCalls == [k \in 1..Len(entries) |-> ToolCallPart(entries[k][1])]
            IN history \o << [role |-> "assistant", content |-> Arr(toolCalls)] >>
                       \o [k \in 1..Len(entries) |-> ToolResultTurn(entries[k])]
                       \o user
       ELSE history \o user

\* lines 35-79: the message list
BuildMessages(params) ==
    LET conversationHistory ==
            IF params.conversationHistory = Undefined THEN <<>>
            ELSE params.conversationHistory[2]
        base == [k \in 1..Len(conversationHistory) |-> HistoryTurn(conversationHistory[k])]
                  \o << [role |-> "user", content |-> Str(params.text)] >>
        contextData == params.contextData
    IN IF Truthy(contextData) /\ Len(ObjectKeys(contextData)) > 0
       THEN LET entries == ObjectEntries(contextData)
                toolCalls == [k \in 1..Len(entries) |-> ToolCallPart(entries[k][1])]
            IN base \o << [role |-> "assistant", content |-> Arr(toolCalls)] >>
                    \o [k \in 1..Len(entries) |-> ToolResultTurn(entries[k])]
       ELSE base

\* jsonSchemaToZod: the validator is described by its shape; every validator
\* the function returns is an object validator in passthrough mode.
ZodTypeOf(propSchema) ==
    CASE propSchema.type = <<"string">> -> "string"
      [] propSchema.type = <<"number">> -> "number"
      [] propSchema.type = <<"boolean">> -> "boolean"
      [] propSchema.type = <<"array">> ->
            LET itemsSchema == propSchema.items
                itemsType == IF itemsSchema[1] = "object" THEN itemsSchema[2].type
                             ELSE <<>>
            IN CASE itemsType = <<"string">> -> "array<string>"
                 [] itemsType = <<"number">> -> "array<number>"
                 [] OTHER -> "array<unknown>"
      [] OTHER -> "unknown"

\* typeof v
TypeOf(v) ==
    CASE v[1] \in {"undefined", "string", "number", "boolean", "function"} -> v[1]
      [] OTHER -> "object"

\* z.object({}).passthrough()
AnyObject == [passthrough |-> TRUE, shape |-> <<>>]

\* Mutant: without a usable schema the validator is z.object({}).strict().
jsonSchemaToZod_Strict(schema) ==
    IF ~Truthy(schema) \/ TypeOf(schema) # "object"
    THEN [passthrough |-> FALSE, shape |-> <<>>]
    ELSE IF /\ schema[1] = "object"
            /\ IsString(schema[2].type) /\ schema[2].type[2] = <<"object">>
            /\ Truthy(schema[2].properties)
         THEN LET properties == ObjectEntries(schema[2].properties)
                  required == IF Truthy(schema[2].required) THEN schema[2].required[2] ELSE <<>>
              IN [passthrough |-> TRUE,
                  shape |-> [k \in 1..Len(properties) |->
                               [key |-> properties[k][1],
                                zodType |-> ZodTypeOf(properties[k][2]),
                                optional |-> ~(\E r \in 1..Len(required) :
                                                  required[r] = properties[k][1])]]]
         ELSE [passthrough |-> FALSE, shape |-> <<>>]

\* lines 4-64; an array passes the typeof test and has neither type nor
\* properties
jsonSchemaToZod(schema) ==
    IF ~Truthy(schema) \/ TypeOf(schema) # "object"
    THEN AnyObject
    ELSE IF /\ schema[1] = "object"
            /\ IsString(schema[2].type) /\ schema[2].type[2] = <<"object">>
            /\ Truthy(schema[2].properties)
         THEN LET properties == ObjectEntries(schema[2].properties)
                  required == IF Truthy(schema[2].required) THEN schema[2].required[2] ELSE <<>>
              IN [passthrough |-> TRUE,
                  shape |-> [k \in 1..Len(properties) |->
                               [key |-> properties[k][1],
                                zodType |-> ZodTypeOf(properties[k][2]),
                                optional |-> ~(\E r \in 1..Len(required) :
                                                  required[r] = properties[k][1])]]]
         ELSE AnyObject

\* what a zod type accepts
Matches(zodType, v) ==
    CASE zodType = "string" -> v[1] = "string"
      [] zodType = "number" -> v[1] = "number"
      [] zodType = "boolean" -> v[1] = "boolean"
      [] zodType = "array<string>" ->
            v[1] = "array" /\ \A e \in 1..Len(v[2]) : v[2][e][1] = "string"
      [] zodType = "array<number>" ->
            v[1] = "array" /\ \A e \in 1..Len(v[2]) : v[2][e][1] = "number"
      [] zodType = "array<unknown>" -> v[1] = "array"
      [] OTHER -> TRUE

\* validator.safeParse(value).success for an object validator: the value is
\* an object, every field of the shape is acceptable (undefined for an
\* optional one), and fields outside the shape are let through unless the
\* validator is strict
SafeParse(validator, value) ==
    /\ value[1] = "object"
    /\ \A k \in 1..Len(validator.shape) :
          LET field == Lookup(value, validator.shape[k].key)
          IN \/ validator.shape[k].optional /\ field = Undefined
             \/ Matches(validator.shape[k].zodType, field)
    /\ \/ validator.passthrough
       \/ \A e \in 1..Len(value[2]) :
             \E k \in 1..Len(validator.shape) : validator.shape[k].key = value[2][e][1]

\* { error: "Data should be pre-fetched by Chat Service" }
Sentinel == Obj(<< <<<<"error">>, Str(<<"Data should be pre-fetched by Chat Service">>)>> >>)

\* Mutant: execute tests the value for truthiness.
Execute_Truthy(contextData, toolName) ==
    LET toolData == Lookup(contextData, toolName)
    IN IF Truthy(toolData) THEN toolData ELSE Sentinel

\* execute of the tool built for toolName; contextData is the object the
\* closure refers to, as it is when execute runs
Execute(contextData, toolName) ==
    LET toolData == Lookup(contextData, toolName)
    IN IF toolData # Null /\ toolData # Undefined
       THEN toolData
       ELSE Sentinel

\* Mutant: a tool is registered only when contextData holds data for it.
BuildTools_OnlyWithData(params) ==
    IF Truthy(params.tools)
    THEN LET WithData(toolDef) == HasOwn(params.contextData, toolDef.name)
             declared == SelectSeq(params.tools[2], WithData)
         IN <<"object",
              [k \in 1..Len(declared) |->
                 <<declared[k].name,
                   [description |-> declared[k].description,
                    parameters |-> jsonSchemaToZod(declared[k].parameters)]>>]>>
    ELSE Undefined

\* lines 87-113: the tool mapping
BuildTools(params) ==
    IF Truthy(params.tools)
    THEN <<"object",
           [k \in 1..Len(params.tools[2]) |->
              <<params.tools[2][k].name,
                [description |-> params.tools[2][k].description,
                 parameters |-> jsonSchemaToZod(params.tools[2][k].parameters)]>>]>>
    ELSE Undefined

\* `Messages: n, Tools: t, ContextData keys: k` as the three templates print it
ContextInfo(messages, params) ==
    <<"Messages: ">> \o NumToString(Len(messages))
      \o <<", Tools: ">> \o NumToString(LengthOrZero(params.tools))
      \o <<", ContextData keys: ">>
      \o (IF Truthy(params.contextData)
          THEN Join(ObjectKeys(params.contextData), <<", ">>)
          ELSE <<"none">>)

-----------------------------------------------------------------------------
(* The provider: what streamText, its two channels and its three settlement *)
(* values can deliver                                                       *)

Fragments == { <<"Hel">>, <<"lo">> }

ProviderErrors == { NativeError(<<"Stream", " ", "error">>, 0), Str(<<"String", " ", "error">>) }

FullStreamParts ==
    { <<"text-delta", f>> : f \in Fragments }
      \cup { <<"error", e>> : e \in ProviderErrors }
      \cup { <<"step-finish", <<>>>> }

FinishReasons == { Str(<<"stop">>), Str(<<>>), Undefined }

FinalTexts == { Str(<<>>), Str(<<" ">>), Str(<<" ", "Final", " ", "text">>) }

ToolCallLists ==
    { Undefined } \cup { Arr([k \in 1..n |-> <<"call-", ToString(k)>>]) : n \in 0..MaxToolCalls }

Pending == <<"pending">>

Resolved(v) == <<"resolved", v>>

Rejected(e) == <<"rejected", e>>

Outcomes(values) == { Resolved(v) : v \in values } \cup { Rejected(e) : e \in ProviderErrors }

\* setTimeout delays, in seconds
FinishReasonTimeout == 5

TextTimeout == 30

ToolCallsTimeout == 30

GraceDelay == 1

MaxSteps == 5

TimerNames == { "finishReason", "text", "toolCalls", "grace" }

IdleTimer == [status |-> "idle", started |-> 0, deadline |-> 0]

\* Mutant: the delay is dropped and the timer is due at once.
StartTimer_NoDelay(g, name, delay, t) ==
    [g EXCEPT !.timers[name] = [status |-> "pending", started |-> t, deadline |-> t]]

StartTimer(g, name, delay, t) ==
    [g EXCEPT !.timers[name] = [status |-> "pending", started |-> t, deadline |-> t + delay]]

-----------------------------------------------------------------------------
(* The service instance *)

Config(baseURL, apiKey, model, maxTokens, temperature) ==
    [baseURL |-> baseURL, apiKey |-> apiKey, model |-> model,
     maxTokens |-> maxTokens, temperature |-> temperature]

\* the configuration of the service's tests
DefaultConfig ==
    Config(Str(<<"https://api.openai.com/v1">>), Str(<<"test-api-key">>),
           <<"gpt-4">>, Num(1000), Num(1))

\* the configurations a construction is tried with
Configs ==
    { Config(baseURL, apiKey, model, maxTokens, temperature) :
        baseURL \in { Undefined, Str(<<>>), Str(<<"https://api.openai.com/v1">>),
                      Str(<<"https://custom-api.com">>) },
        apiKey \in { Undefined, Str(<<>>), Str(<<"test-api-key">>) },
        model \in { <<"gpt-4">>, <<"gpt-4o">> },
        maxTokens \in { Undefined, Num(1000) },
        temperature \in { Undefined, Num(0) } }

\* openai(modelId, settings): the model handle the factory returns
openai(modelId, settings) ==
    <<"model", [modelId |-> modelId, baseURL |-> settings.baseURL, apiKey |-> settings.apiKey]>>

\* no construction was tried: there is no instance; factoryCalls are the
\* arguments of the calls of openai made so far, attempt is the configuration
\* the constructor was last called with
NoService ==
    [state |-> "none", config |-> <<>>, model |-> Undefined, thrown |-> <<>>,
     factoryCalls |-> <<>>, attempt |-> <<>>]

\* Mutant: the model handle is made before the configuration is checked.
Constructor_FactoryFirst(s, config) ==
    LET settings == [baseURL |-> config.baseURL, apiKey |-> config.apiKey]
        called == [s EXCEPT !.attempt = <<config>>,
                            !.factoryCalls = Append(@, <<config.model, settings>>)]
    IN IF ~Truthy(config.baseURL)
       THEN [called EXCEPT !.state = "failed",
                           !.thrown = <<NewAiSdkError(<<"baseURL is required">>, <<>>, <<>>, 0)>>]
       ELSE IF ~Truthy(config.apiKey)
            THEN [called EXCEPT !.state = "failed",
                                !.thrown = <<NewAiSdkError(<<"apiKey is required">>, <<>>, <<>>, 0)>>]
            ELSE [called EXCEPT !.state = "constructed",
                                !.config = <<config>>,
                                !.model = openai(config.model, settings),
                                !.thrown = <<>>]

\* new AiSdkService(config), lines 15-28; a constructor that throws leaves no
\* instance
Constructor(s, config) ==
    LET t == [s EXCEPT !.attempt = <<config>>]
    IN IF ~Truthy(config.baseURL)
       THEN [t EXCEPT !.state = "failed",
                      !.thrown = <<NewAiSdkError(<<"baseURL is required">>, <<>>, <<>>, 0)>>]
       ELSE IF ~Truthy(config.apiKey)
            THEN [t EXCEPT !.state = "failed",
                           !.thrown = <<NewAiSdkError(<<"apiKey is required">>, <<>>, <<>>, 0)>>]
            ELSE LET settings == [baseURL |-> config.baseURL, apiKey |-> config.apiKey]
                 IN [t EXCEPT !.state = "constructed",
                              !.config = <<config>>,
                              !.model = openai(config.model, settings),
                              !.thrown = <<>>,
                              !.factoryCalls = Append(@, <<config.model, settings>>)]

-----------------------------------------------------------------------------
(* One streamMessage invocation: the generator object and what it has done *)

NotCalled ==
    [pc |-> "notCalled",
     params |-> <<>>,
     messages |-> <<>>,
     aiSdkTools |-> Undefined,
     streamTextCalls |-> 0,
     streamTextArgs |-> <<>>,
     chunkCount |-> 0,
     yielded |-> <<>>,
     requested |-> FALSE,
     outcome |-> "none",
     thrown |-> <<>>,
     throws |-> 0,
     reads |-> <<>>,
     textStreamLog |-> <<>>,
     textStreamEnded |-> FALSE,
     fullStreamLog |-> <<>>,
     fullStreamEnded |-> FALSE,
     streamError |-> Null,
     providerThrew |-> <<>>,
     promises |-> [n \in {"finishReason", "text", "toolCalls", "delayedText"} |-> Pending],
     timers |-> [n \in TimerNames |-> IdleTimer],
     races |-> [n \in {"finishReason", "text", "toolCalls"} |-> "undecided"],
     finishReason |-> Undefined,
     finalText |-> Undefined,
     finalToolCalls |-> Undefined,
     allocs |-> 0,
     executed |-> <<>>,
     contextDataAtBuild |-> Undefined,
     mutations |-> 0,
     abandonedAt |-> <<>>]

Read(g, property) == [g EXCEPT !.reads = Append(@, property)]

\* yield chunk: the pending next() of the caller resolves with the fragment
Yield(g, chunk, at) ==
    [g EXCEPT !.yielded = Append(@, chunk), !.requested = FALSE, !.pc = at]

\* the generator function returns: the pending next() resolves with done
Return(g) ==
    [g EXCEPT !.pc = "completed", !.outcome = "returned", !.requested = FALSE]

\* what the invocation has done so far
Footprint(g) ==
    [reads |-> g.reads,
     yielded |-> g.yielded,
     textStreamLog |-> g.textStreamLog,
     fullStreamLog |-> g.fullStreamLog,
     started |-> { n \in TimerNames : g.timers[n].status # "idle" },
     streamTextCalls |-> g.streamTextCalls]

\* Mutant: return() at a yield inside a loop resumes the loop like next().
ReturnAtYield_RunsOn(g) ==
    LET h == [g EXCEPT !.abandonedAt = <<Footprint(g)>>]
    IN IF g.pc = "yieldTextStream"
       THEN [h EXCEPT !.requested = TRUE, !.pc = "textStream"]
       ELSE IF g.pc = "yieldFullStream"
            THEN [h EXCEPT !.requested = TRUE, !.pc = "fullStream"]
            ELSE Return(h)

\* generator.return() while the body is suspended at a yield (lines 135,
\* 150, 198, 212): the body is left at the yield, the for await loop around
\* it closes its iterator, and no catch runs; abandonedAt keeps what the
\* invocation had done by then
ReturnAtYield(g) == Return([g EXCEPT !.abandonedAt = <<Footprint(g)>>])

\* Mutant: the raised error's message carries the time of the failure.
OuterCatch_Stamped(g, error) ==
    LET message == NumToString(now) \o <<": ">>
                     \o (IF InstanceOfError(error) THEN error[2].message ELSE StringOf(error))
    IN [g EXCEPT !.pc = "completed",
                 !.outcome = "threw",
                 !.thrown = <<NewAiSdkError(message, <<error>>, <<>>, g.allocs + 1)>>,
                 !.throws = @ + 1,
                 !.requested = FALSE,
                 !.allocs = @ + 1]

\* catch (error) of the outer try, lines 234-240
OuterCatch(g, error) ==
    LET contextInfo == ContextInfo(g.messages, g.params)
        errorStack == IF InstanceOfError(error) THEN error[2].stack ELSE <<>>
        fullMessage == <<"AI SDK stream error. ">> \o contextInfo \o <<". ">> \o errorStack
        raised == fromError(error, <<fullMessage>>, g.allocs + 1)
    IN [g EXCEPT !.pc = "completed",
                 !.outcome = "threw",
                 !.thrown = <<raised>>,
                 !.throws = @ + 1,
                 !.requested = FALSE,
                 !.allocs = IF fromErrorAllocates(error) THEN @ + 1 ELSE @]

\* Mutant: the settlement catch raises its error without the cause.
ResultCatch_NoCause(g, resultError) ==
    LET errorMessage == IF InstanceOfError(resultError) THEN resultError[2].message
                        ELSE <<"Unknown error">>
        wrapped == NewAiSdkError(
                     <<"AI SDK stream completed without generating any chunks. ">>
                       \o ContextInfo(g.messages, g.params)
                       \o <<". Error getting final result: ">> \o errorMessage,
                     <<>>, <<>>, g.allocs + 1)
    IN OuterCatch([g EXCEPT !.allocs = @ + 1], wrapped)

\* catch (resultError) of the settlement try, lines 226-232
ResultCatch(g, resultError) ==
    LET errorMessage == IF InstanceOfError(resultError) THEN resultError[2].message
                        ELSE <<"Unknown error">>
        wrapped == NewAiSdkError(
                     <<"AI SDK stream completed without generating any chunks. ">>
                       \o ContextInfo(g.messages, g.params)
                       \o <<". Error getting final result: ">> \o errorMessage,
                     <<resultError>>, <<>>, g.allocs + 1)
    IN OuterCatch([g EXCEPT !.allocs = @ + 1], wrapped)

\* Mutant: only an absent finish-reason is printed as "unknown".
FinishReasonOrUnknown_Nullish(g) ==
    IF g.finishReason \in { Undefined, Null } THEN <<"unknown">> ELSE StringOf(g.finishReason)

\* finishReason || "unknown", lines 215, 219 and 223
FinishReasonOrUnknown(g) ==
    IF Truthy(g.finishReason) THEN StringOf(g.finishReason) ELSE <<"unknown">>

NoTextAfterToolsMessage(g) ==
    <<"AI SDK called tools but did not generate text. ToolCalls: ">>
      \o NumToString(Len(g.finalToolCalls[2]))
      \o <<", FinishReason: ">> \o FinishReasonOrUnknown(g)

\* catch (delayedError) of the re-read try, lines 218-221
DelayedCatch(g, delayedError) ==
    LET errorMessage == NoTextAfterToolsMessage(g) \o <<", Error: ">>
                          \o (IF InstanceOfError(delayedError) THEN delayedError[2].message
                              ELSE <<"Unknown">>)
        wrapped == NewAiSdkError(errorMessage, <<delayedError>>, <<>>, g.allocs + 1)
    IN ResultCatch([g EXCEPT !.allocs = @ + 1], wrapped)

EmptyStreamMessage(g) ==
    <<"AI SDK stream completed without generating any chunks or text. ">>
      \o ContextInfo(g.messages, g.params)
      \o <<", FinishReason: ">> \o FinishReasonOrUnknown(g)
      \o <<", ToolCalls: ">> \o NumToString(LengthOrZero(g.finalToolCalls))

TimeoutMessage(property) == <<"Timeout waiting for result.", property>>

HasText_NoTrim(v) == Truthy(v)

\* text && text.trim().length, lines 197 and 211
HasText(v) == Truthy(v) /\ Len(Trim(v[2])) # 0

-----------------------------------------------------------------------------
(* Steps of the generator body *)

\* Mutant: a temperature of 0 is not passed on.
RunToStreamText_DropsFalsy(g) ==
    LET messages == BuildMessages(g.params)
        aiSdkTools == BuildTools(g.params)
    IN [g EXCEPT !.messages = messages,
                 !.aiSdkTools = aiSdkTools,
                 !.contextDataAtBuild = g.params.contextData,
                 !.streamTextCalls = @ + 1,
                 !.streamTextArgs = << [model |-> service.model,
                                        system |-> g.params.systemPrompt,
                                        messages |-> messages,
                                        tools |-> aiSdkTools,
                                        maxTokens |-> service.config[1].maxTokens,
                                        temperature |-> IF Truthy(service.config[1].temperature)
                                                       THEN service.config[1].temperature
                                                       ELSE Undefined,
                                        maxSteps |-> MaxSteps] >>,
                 !.requested = TRUE,
                 !.pc = "awaitStreamText"]

\* lines 32-128: the first next() runs the body up to the await of streamText
RunToStreamText(g) ==
    LET messages == BuildMessages(g.params)
        aiSdkTools == BuildTools(g.params)
    IN [g EXCEPT !.messages = messages,
                 !.aiSdkTools = aiSdkTools,
                 !.contextDataAtBuild = g.params.contextData,
                 !.streamTextCalls = @ + 1,
                 !.streamTextArgs = << [model |-> service.model,
                                        system |-> g.params.systemPrompt,
                                        messages |-> messages,
                                        tools |-> aiSdkTools,
                                        maxTokens |-> service.config[1].maxTokens,
                                        temperature |-> service.config[1].temperature,
                                        maxSteps |-> MaxSteps] >>,
                 !.requested = TRUE,
                 !.pc = "awaitStreamText"]

\* Mutant: the three values are read and their timers started together.
EnterSettlement_AllAtOnce(g, t) ==
    [StartTimer(StartTimer(StartTimer(Read(Read(Read(g, "finishReason"), "text"), "toolCalls"),
                                      "finishReason", FinishReasonTimeout, t),
                           "text", TextTimeout, t),
                "toolCalls", ToolCallsTimeout, t)
       EXCEPT !.pc = "raceFinishReason"]

\* lines 160-172: the settlement tier starts with the finishReason race
EnterSettlement(g, t) ==
    [StartTimer(Read(g, "finishReason"), "finishReason", FinishReasonTimeout, t)
       EXCEPT !.pc = "raceFinishReason"]

\* Mutant: the secondary channel is read whatever the primary channel yielded.
AfterTextStream_AlwaysFallback(g, t) ==
    [Read(g, "fullStream") EXCEPT !.streamError = Null, !.pc = "fullStream"]

\* lines 139-160 after the primary loop, and the fall through to the end
AfterTextStream(g, t) ==
    IF g.chunkCount = 0
    THEN [Read(g, "fullStream") EXCEPT !.streamError = Null, !.pc = "fullStream"]
    ELSE Return(g)

\* Mutant: the invocation ends after the secondary channel, fragments or not.
AfterFullStream_NoSettlement(g, t) ==
    IF g.streamError # Null
    THEN OuterCatch(g, fromError(g.streamError, <<>>, g.allocs + 1))
    ELSE Return(g)

\* Mutant: the settlement tier is entered whatever the secondary channel yielded.
AfterFullStream_AlwaysSettle(g, t) ==
    IF g.streamError # Null
    THEN OuterCatch(g, fromError(g.streamError, <<>>, g.allocs + 1))
    ELSE EnterSettlement(g, t)

\* lines 154-160 after the secondary loop ended without break
AfterFullStream(g, t) ==
    IF g.streamError # Null
    THEN OuterCatch(g, fromError(g.streamError, <<>>, g.allocs + 1))
    ELSE IF g.chunkCount = 0 THEN EnterSettlement(g, t) ELSE Return(g)

\* Mutant: an error event is skipped like any other event that is no text delta.
OnFullStreamPart_IgnoreError(g, part, t) ==
    IF part[1] = "text-delta"
    THEN Yield([g EXCEPT !.chunkCount = @ + 1], part[2], "yieldFullStream")
    ELSE g

\* Mutant: every event that is no error event is counted.
OnFullStreamPart_CountsAll(g, part, t) ==
    IF part[1] = "error"
    THEN LET streamError == fromError(part[2], <<>>, g.allocs + 1)
             h == [g EXCEPT !.streamError = streamError,
                            !.fullStreamEnded = TRUE,
                            !.allocs = IF fromErrorAllocates(part[2]) THEN @ + 1 ELSE @]
         IN AfterFullStream(h, t)
    ELSE IF part[1] = "text-delta"
         THEN Yield([g EXCEPT !.chunkCount = @ + 1], part[2], "yieldFullStream")
         ELSE [g EXCEPT !.chunkCount = @ + 1]

\* Mutant: the error event is remembered and the loop goes on to the next event.
OnFullStreamPart_KeepsDraining(g, part, t) ==
    IF part[1] = "error"
    THEN [g EXCEPT !.streamError = fromError(part[2], <<>>, g.allocs + 1),
                   !.allocs = IF fromErrorAllocates(part[2]) THEN @ + 1 ELSE @]
    ELSE IF part[1] = "text-delta"
         THEN Yield([g EXCEPT !.chunkCount = @ + 1], part[2], "yieldFullStream")
         ELSE g

\* lines 142-152: one item of fullStream
OnFullStreamPart(g, part, t) ==
    IF part[1] = "error"
    THEN LET streamError == fromError(part[2], <<>>, g.allocs + 1)
             h == [g EXCEPT !.streamError = streamError,
                            !.fullStreamEnded = TRUE,
                            !.allocs = IF fromErrorAllocates(part[2]) THEN @ + 1 ELSE @]
         IN AfterFullStream(h, t)
    ELSE IF part[1] = "text-delta"
         THEN Yield([g EXCEPT !.chunkCount = @ + 1], part[2], "yieldFullStream")
         ELSE g

\* Mutant: the final text is re-read at once, without the grace period.
OnSettled_NoGrace(g, t) ==
    IF HasText(g.finalText)
    THEN Yield(g, g.finalText[2], "yieldFinalText")
    ELSE IF Truthy(g.finalToolCalls) /\ Len(g.finalToolCalls[2]) # 0
         THEN [Read(g, "text") EXCEPT !.pc = "awaitDelayedText"]
         ELSE ResultCatch([g EXCEPT !.allocs = @ + 1],
                          NewAiSdkError(EmptyStreamMessage(g), <<>>, <<>>, g.allocs + 1))

\* Mutant: an empty list of tool invocations counts as tool invocations.
OnSettled_GraceOnEmptyList(g, t) ==
    IF HasText(g.finalText)
    THEN Yield(g, g.finalText[2], "yieldFinalText")
    ELSE IF Truthy(g.finalToolCalls)
         THEN [StartTimer(g, "grace", GraceDelay, t) EXCEPT !.pc = "grace"]
         ELSE ResultCatch([g EXCEPT !.allocs = @ + 1],
                          NewAiSdkError(EmptyStreamMessage(g), <<>>, <<>>, g.allocs + 1))

\* Mutant: the tool invocations are looked at before the final text.
OnSettled_ToolCallsFirst(g, t) ==
    IF Truthy(g.finalToolCalls) /\ Len(g.finalToolCalls[2]) # 0
    THEN [StartTimer(g, "grace", GraceDelay, t) EXCEPT !.pc = "grace"]
    ELSE IF HasText(g.finalText)
         THEN Yield(g, g.finalText[2], "yieldFinalText")
         ELSE ResultCatch([g EXCEPT !.allocs = @ + 1],
                          NewAiSdkError(EmptyStreamMessage(g), <<>>, <<>>, g.allocs + 1))

\* lines 196-225: the branch taken once the three races are won
OnSettled(g, t) ==
    IF HasText(g.finalText)
    THEN Yield(g, g.finalText[2], "yieldFinalText")
    ELSE IF Truthy(g.finalToolCalls) /\ Len(g.finalToolCalls[2]) # 0
         THEN [StartTimer(g, "grace", GraceDelay, t) EXCEPT !.pc = "grace"]
         ELSE ResultCatch([g EXCEPT !.allocs = @ + 1],
                          NewAiSdkError(EmptyStreamMessage(g), <<>>, <<>>, g.allocs + 1))

\* Mutant: a final text is yielded as soon as result.text has resolved.
OnRaceValue_YieldsEarly(g, name, outcome, t) ==
    LET h == [g EXCEPT !.races[name] = "value"]
    IN IF outcome[1] = "rejected"
       THEN ResultCatch(h, outcome[2])
       ELSE CASE name = "finishReason" ->
                   [StartTimer(Read([h EXCEPT !.finishReason = outcome[2]], "text"),
                               "text", TextTimeout, t)
                      EXCEPT !.pc = "raceText"]
              [] name = "text" ->
                   IF HasText(outcome[2])
                   THEN Yield([h EXCEPT !.finalText = outcome[2]], outcome[2][2], "yieldFinalText")
                   ELSE [StartTimer(Read([h EXCEPT !.finalText = outcome[2]], "toolCalls"),
                                    "toolCalls", ToolCallsTimeout, t)
                           EXCEPT !.pc = "raceToolCalls"]
              [] name = "toolCalls" ->
                   OnSettled([h EXCEPT !.finalToolCalls = outcome[2]], t)

\* lines 163-194: the awaited value settles while its race is undecided
OnRaceValue(g, name, outcome, t) ==
    LET h == [g EXCEPT !.races[name] = "value"]
    IN IF outcome[1] = "rejected"
       THEN ResultCatch(h, outcome[2])
       ELSE CASE name = "finishReason" ->
                   [StartTimer(Read([h EXCEPT !.finishReason = outcome[2]], "text"),
                               "text", TextTimeout, t)
                      EXCEPT !.pc = "raceText"]
              [] name = "text" ->
                   [StartTimer(Read([h EXCEPT !.finalText = outcome[2]], "toolCalls"),
                               "toolCalls", ToolCallsTimeout, t)
                      EXCEPT !.pc = "raceToolCalls"]
              [] name = "toolCalls" ->
                   OnSettled([h EXCEPT !.finalToolCalls = outcome[2]], t)

\* lines 165-171, 176-182, 187-193: the timer of an undecided race fires
OnRaceTimeout(g, name) ==
    ResultCatch([g EXCEPT !.allocs = @ + 1, !.races[name] = "timeout"],
                NewAiSdkError(TimeoutMessage(name), <<>>, <<>>, g.allocs + 1))

\* Mutant: the re-read text is yielded without the emptiness test.
OnDelayedText_NoEmptinessTest(g, outcome) ==
    IF outcome[1] = "rejected"
    THEN DelayedCatch(g, outcome[2])
    ELSE Yield(g, outcome[2][2], "yieldDelayedText")

\* lines 209-221: the re-read of result.text settles
OnDelayedText(g, outcome) ==
    IF outcome[1] = "rejected"
    THEN DelayedCatch(g, outcome[2])
    ELSE IF HasText(outcome[2])
         THEN Yield(g, outcome[2][2], "yieldDelayedText")
         ELSE DelayedCatch([g EXCEPT !.allocs = @ + 1],
                           NewAiSdkError(NoTextAfterToolsMessage(g), <<>>, <<>>, g.allocs + 1))

RaceOf(name) ==
    CASE name = "finishReason" -> "raceFinishReason"
      [] name = "text" -> "raceText"
      [] name = "toolCalls" -> "raceToolCalls"
      [] OTHER -> "grace"

-----------------------------------------------------------------------------
(* Actions *)

Invocations == { 1 }

Request(conversationHistory, systemPrompt, tools, contextData) ==
    [text |-> <<"Tell", " ", "me">>,
     conversationHistory |-> conversationHistory,
     systemPrompt |-> systemPrompt,
     tools |-> tools,
     contextData |-> contextData]

\* The requests the invocations are made with: every optional field absent,
\* every optional field present and empty, and two filled requests.
Requests ==
    { Request(Undefined, Undefined, Undefined, Undefined),
      Request(Arr(<<>>), Undefined, Arr(<<>>), Obj(<<>>)),
      Request(Arr(<<CopilotMessage>>), Undefined, Arr(<<GetNews>>),
              Obj(<< <<<<"other">>, Str(<<"cached">>)>> >>)),
      Request(Arr(<<UserMessage, CopilotMessage>>), Str(<<"be", " ", "brief">>),
              Arr(<<GetPrice, GetNews>>),
              Obj(<< <<<<"getPrice">>, Obj(<< <<<<"usd">>, Str(<<"1">>)>> >>)>>,
                     <<<<"other">>, Null>> >>)) }

Init ==
    /\ ids = Invocations
    /\ gen = [i \in ids |-> NotCalled]
    /\ now = 0
    /\ service = Constructor(NoService, DefaultConfig)
    /\ calls = <<>>

Update_Shared(i, g) ==
    gen' = [j \in ids |-> IF j = i THEN g ELSE [gen[j] EXCEPT !.chunkCount = g.chunkCount]]

\* a step of invocation i: the locals of streamMessage (messages, aiSdkTools,
\* chunkCount, result) live in the invocation's own frame
Update(i, g) == gen' = [gen EXCEPT ![i] = g]

\* Mutant: the provider is called when streamMessage is called, and again when
\* the body runs.
StreamMessage_Eager(i, params) ==
    /\ service.state = "constructed"
    /\ gen[i].pc = "notCalled"
    /\ Update(i, [gen[i] EXCEPT !.pc = "suspendedStart", !.params = params,
                                !.streamTextCalls = @ + 1])
    /\ UNCHANGED <<ids, now, service, calls>>

\* service.streamMessage(params): creates the generator, runs nothing
StreamMessage(i, params) ==
    /\ service.state = "constructed"
    /\ gen[i].pc = "notCalled"
    /\ Update(i, [gen[i] EXCEPT !.pc = "suspendedStart", !.params = params])
    /\ UNCHANGED <<ids, now, service, calls>>

\* the caller's first next()
Start(i) ==
    /\ gen[i].pc = "suspendedStart"
    /\ ~gen[i].requested
    /\ Update(i, RunToStreamText(gen[i]))
    /\ UNCHANGED <<ids, now, service, calls>>

\* streamText returns the result handle; the primary loop asks for its first item
StreamTextReturns(i) ==
    /\ gen[i].pc = "awaitStreamText"
    /\ Update(i, [Read(gen[i], "textStream") EXCEPT !.chunkCount = 0, !.pc = "textStream"])
    /\ UNCHANGED <<ids, now, service, calls>>

StreamTextThrows(i, e) ==
    /\ gen[i].pc = "awaitStreamText"
    /\ Update(i, OuterCatch([gen[i] EXCEPT !.providerThrew = <<e>>], e))
    /\ UNCHANGED <<ids, now, service, calls>>

TextStreamChunk(i, chunk) ==
    /\ gen[i].pc = "textStream"
    /\ Len(gen[i].textStreamLog) < MaxPrimary
    /\ Update(i, Yield([gen[i] EXCEPT !.textStreamLog = Append(@, chunk),
                                      !.chunkCount = @ + 1],
                       chunk, "yieldTextStream"))
    /\ UNCHANGED <<ids, now, service, calls>>

TextStreamDone(i) ==
    /\ gen[i].pc = "textStream"
    /\ Update(i, AfterTextStream([gen[i] EXCEPT !.textStreamEnded = TRUE], now))
    /\ UNCHANGED <<ids, now, service, calls>>

\* Mutant: a primary channel that fails before its first fragment is taken
\* for an empty one.
TextStreamThrows_FallsBack(i, e) ==
    /\ gen[i].pc = "textStream"
    /\ Update(i, IF gen[i].chunkCount = 0
                 THEN AfterTextStream([gen[i] EXCEPT !.providerThrew = <<e>>], now)
                 ELSE OuterCatch([gen[i] EXCEPT !.providerThrew = <<e>>], e))
    /\ UNCHANGED <<ids, now, service, calls>>

\* the iteration of result.textStream throws (lines 133-136)
TextStreamThrows(i, e) ==
    /\ gen[i].pc = "textStream"
    /\ Update(i, OuterCatch([gen[i] EXCEPT !.providerThrew = <<e>>], e))
    /\ UNCHANGED <<ids, now, service, calls>>

\* the caller's next() while the generator is suspended at the yield of line 135
ResumeTextStream(i) ==
    /\ gen[i].pc = "yieldTextStream"
    /\ ~gen[i].requested
    /\ Update(i, [gen[i] EXCEPT !.requested = TRUE, !.pc = "textStream"])
    /\ UNCHANGED <<ids, now, service, calls>>

FullStreamPart(i, part) ==
    /\ gen[i].pc = "fullStream"
    /\ Len(gen[i].fullStreamLog) < MaxSecondary
    /\ Update(i, OnFullStreamPart([gen[i] EXCEPT !.fullStreamLog = Append(@, part)], part, now))
    /\ UNCHANGED <<ids, now, service, calls>>

FullStreamDone(i) ==
    /\ gen[i].pc = "fullStream"
    /\ Update(i, AfterFullStream([gen[i] EXCEPT !.fullStreamEnded = TRUE], now))
    /\ UNCHANGED <<ids, now, service, calls>>

FullStreamThrows(i, e) ==
    /\ gen[i].pc = "fullStream"
    /\ Update(i, OuterCatch([gen[i] EXCEPT !.providerThrew = <<e>>], e))
    /\ UNCHANGED <<ids, now, service, calls>>

\* the caller's next() while the generator is suspended at the yield of line 150
ResumeFullStream(i) ==
    /\ gen[i].pc = "yieldFullStream"
    /\ ~gen[i].requested
    /\ Update(i, [gen[i] EXCEPT !.requested = TRUE, !.pc = "fullStream"])
    /\ UNCHANGED <<ids, now, service, calls>>

\* one of result.finishReason, result.text, result.toolCalls settles after it
\* was read; it decides its race if the race is still undecided
ValueSettles(i, name, outcome) ==
    /\ gen[i].timers[name].status # "idle"
    /\ gen[i].promises[name] = Pending
    /\ LET g == [gen[i] EXCEPT !.promises[name] = outcome]
       IN Update(i, IF g.pc = RaceOf(name) /\ g.timers[name].status = "pending"
                    THEN OnRaceValue(g, name, outcome, now)
                    ELSE g)
    /\ UNCHANGED <<ids, now, service, calls>>

\* Mutant: the rejection of a timer reaches the invocation whatever it awaits.
TimerFires_RejectsLate(i, name) ==
    /\ gen[i].timers[name].status = "pending"
    /\ gen[i].timers[name].deadline <= now
    /\ LET g == [gen[i] EXCEPT !.timers[name].status = "fired"]
       IN Update(i, IF name = "grace"
                    THEN (IF gen[i].pc = "grace"
                          THEN [Read(g, "text") EXCEPT !.pc = "awaitDelayedText"]
                          ELSE g)
                    ELSE OnRaceTimeout(g, name))
    /\ UNCHANGED <<ids, now, service, calls>>

\* a timer callback runs at its deadline
TimerFires(i, name) ==
    /\ gen[i].timers[name].status = "pending"
    /\ gen[i].timers[name].deadline <= now
    /\ LET g == [gen[i] EXCEPT !.timers[name].status = "fired"]
       IN Update(i, IF gen[i].pc # RaceOf(name) THEN g
                    ELSE IF name = "grace"
                         THEN [Read(g, "text") EXCEPT !.pc = "awaitDelayedText"]
                         ELSE OnRaceTimeout(g, name))
    /\ UNCHANGED <<ids, now, service, calls>>

\* The promise obtained by the re-read of result.text (line 209) settles.
\* result.text is a property of the provider's result: a getter may hand out
\* another promise at each read (the stubs of the service's tests do), so the
\* re-read settles on its own, or never; no timer races it.
DelayedTextSettles(i, outcome) ==
    /\ gen[i].pc = "awaitDelayedText"
    /\ gen[i].promises["delayedText"] = Pending
    /\ Update(i, OnDelayedText([gen[i] EXCEPT !.promises["delayedText"] = outcome], outcome))
    /\ UNCHANGED <<ids, now, service, calls>>

\* the caller's next() while the generator is suspended at the yield of line
\* 198 or 212: chunkCount = 1 and the function runs to its end
ResumeAfterFinal(i) ==
    /\ gen[i].pc \in {"yieldFinalText", "yieldDelayedText"}
    /\ ~gen[i].requested
    /\ Update(i, Return([gen[i] EXCEPT !.chunkCount = 1]))
    /\ UNCHANGED <<ids, now, service, calls>>

\* the caller abandons the iteration after a fragment: it leaves its for
\* await loop, which calls return() on the suspended generator
CallerReturns(i) ==
    /\ gen[i].pc \in {"yieldTextStream", "yieldFullStream", "yieldFinalText", "yieldDelayedText"}
    /\ ~gen[i].requested
    /\ Update(i, ReturnAtYield(gen[i]))
    /\ UNCHANGED <<ids, now, service, calls>>

\* Mutant: next() on a finished generator runs the body again.
NextAfterDone_Restart(i) ==
    /\ gen[i].pc = "completed"
    /\ ~gen[i].requested
    /\ gen[i].streamTextCalls < 2
    /\ Update(i, RunToStreamText(gen[i]))
    /\ UNCHANGED <<ids, now, service, calls>>

\* next() on a finished generator resolves with done and runs nothing
NextAfterDone(i) ==
    /\ gen[i].pc = "completed"
    /\ ~gen[i].requested
    /\ Update(i, gen[i])
    /\ UNCHANGED <<ids, now, service, calls>>

PendingDeadlines ==
    { gen[p[1]].timers[p[2]].deadline :
        p \in { q \in ids \X TimerNames : gen[q[1]].timers[q[2]].status = "pending" } }

\* time passes up to the next deadline; a due timer runs before time moves on
Tick ==
    /\ PendingDeadlines # {}
    /\ \A d \in PendingDeadlines : d > now
    /\ now' = CHOOSE d \in PendingDeadlines : \A e \in PendingDeadlines : d <= e
    /\ UNCHANGED <<ids, gen, service, calls>>

Next ==
    \/ \E i \in ids, params \in Requests : StreamMessage(i, params)
    \/ \E i \in ids : Start(i)
    \/ \E i \in ids : StreamTextReturns(i)
    \/ \E i \in ids, e \in ProviderErrors : StreamTextThrows(i, e)
    \/ \E i \in ids, chunk \in Fragments : TextStreamChunk(i, chunk)
    \/ \E i \in ids : TextStreamDone(i)
    \/ \E i \in ids, e \in ProviderErrors : TextStreamThrows(i, e)
    \/ \E i \in ids : ResumeTextStream(i)
    \/ \E i \in ids, part \in FullStreamParts : FullStreamPart(i, part)
    \/ \E i \in ids : FullStreamDone(i)
    \/ \E i \in ids, e \in ProviderErrors : FullStreamThrows(i, e)
    \/ \E i \in ids : ResumeFullStream(i)
    \/ \E i \in ids, outcome \in Outcomes(FinishReasons) : ValueSettles(i, "finishReason", outcome)
    \/ \E i \in ids, outcome \in Outcomes(FinalTexts) : ValueSettles(i, "text", outcome)
    \/ \E i \in ids, outcome \in Outcomes(ToolCallLists) : ValueSettles(i, "toolCalls", outcome)
    \/ \E i \in ids, name \in TimerNames : TimerFires(i, name)
    \/ \E i \in ids, outcome \in Outcomes(FinalTexts) : DelayedTextSettles(i, outcome)
    \/ \E i \in ids : ResumeAfterFinal(i)
    \/ \E i \in ids : CallerReturns(i)
    \/ \E i \in ids : NextAfterDone(i)
    \/ Tick

Spec == Init /\ [][Next]_vars

\* the caller keeps requesting items
CallerRequests(i) ==
    Start(i) \/ ResumeTextStream(i) \/ ResumeFullStream(i) \/ ResumeAfterFinal(i)

\* the provider call returns and each channel answers every request for an
\* item; a channel delivers finitely many items
ProviderResponds(i) ==
    \/ StreamTextReturns(i)
    \/ \E e \in ProviderErrors : StreamTextThrows(i, e)
    \/ \E chunk \in Fragments : TextStreamChunk(i, chunk)
    \/ TextStreamDone(i)
    \/ \E e \in ProviderErrors : TextStreamThrows(i, e)
    \/ \E part \in FullStreamParts : FullStreamPart(i, part)
    \/ FullStreamDone(i)
    \/ \E e \in ProviderErrors : FullStreamThrows(i, e)

\* The scheduling the event loop gives: every started timer fires, the caller
\* and the channels make progress; the settlement values may never settle.
FairSpec ==
    /\ Spec
    /\ WF_vars(Tick)
    /\ \A i \in Invocations :
          /\ WF_vars(CallerRequests(i))
          /\ WF_vars(ProviderResponds(i))
          /\ WF_vars(\E name \in TimerNames : TimerFires(i, name))

-----------------------------------------------------------------------------
(* Message assembly and tool mapping over wider inputs *)

\* the sequences of length 0..n over S
SeqsUpTo(S, n) == UNION { [1..k -> S] : k \in 0..n }

\* the entry lists of length 0..n over S in which no key comes twice
EntryLists(S, n) ==
    { q \in SeqsUpTo(S, n) : \A a, b \in 1..Len(q) : a # b => q[a][1] # q[b][1] }

\* the declaration lists of length 0..n over S in which no name comes twice
DeclarationLists(S, n) ==
    { q \in SeqsUpTo(S, n) : \A a, b \in 1..Len(q) : a # b => q[a].name # q[b].name }

\* conversationHistory: absent, or up to MaxHistory messages of the two kinds
\* and of a kind outside the enum
Histories ==
    { Undefined }
      \cup { Arr(h) : h \in SeqsUpTo({ UserMessage, CopilotMessage, OtherMessage }, MaxHistory) }

\* contextData of the assembly: absent, or up to MaxKeys entries
AssemblyContexts ==
    { Undefined }
      \cup { Obj(e) : e \in EntryLists(
                 { <<"getPrice">>, <<"getNews">>, <<"other">> }
                    \X { Null, Str(<<"cached">>), Obj(<< <<<<"usd">>, Str(<<"1">>)>> >>) },
                 MaxKeys) }

AssemblyRequests ==
    { Request(h, Undefined, Undefined, c) : h \in Histories, c \in AssemblyContexts }

\* the generator of each invocation was made with a request and has not run
AssemblyInit ==
    /\ ids = Invocations
    /\ now = 0
    /\ service = Constructor(NoService, DefaultConfig)
    /\ calls = <<>>
    /\ \E p \in AssemblyRequests :
          gen = [i \in ids |-> [NotCalled EXCEPT !.pc = "suspendedStart", !.params = p]]

AssemblyNext == \E i \in ids : Start(i)

AssemblySpec == AssemblyInit /\ [][AssemblyNext]_vars

\* values a contextData entry of a declared tool may hold
ContextValues ==
    { Null, Undefined, Str(<<>>), Arr(<<>>), Obj(<<>>), Num(0), Bool(FALSE),
      Obj(<< <<<<"usd">>, Str(<<"1">>)>> >>) }

\* contextData of the tool mapping: absent, or up to MaxKeys entries, one of
\* them under the name of a declared tool
ToolContexts ==
    { Undefined }
      \cup { Obj(e) : e \in EntryLists(
                 ({ <<"getPrice">> } \X ContextValues)
                    \cup { << <<"other">>, Str(<<"cached">>) >> },
                 MaxKeys) }

\* tools: absent, or up to MaxTools declarations with different names
ToolLists ==
    { Undefined }
      \cup { Arr(t) : t \in DeclarationLists({ GetPrice, GetNews, ToStringTool }, MaxTools) }

ToolRequests ==
    { Request(Undefined, Undefined, t, c) : t \in ToolLists, c \in ToolContexts }

ToolInit ==
    /\ ids = Invocations
    /\ now = 0
    /\ service = Constructor(NoService, DefaultConfig)
    /\ calls = <<>>
    /\ \E p \in ToolRequests :
          gen = [i \in ids |-> [NotCalled EXCEPT !.pc = "suspendedStart", !.params = p]]

\* the mapping handed to the provider has a tool of this name
Declares(g, toolName) ==
    g.aiSdkTools[1] = "object"
      /\ \E k \in 1..Len(g.aiSdkTools[2]) : g.aiSdkTools[2][k][1] = toolName

\* the provider calls execute of a tool of the mapping it was given; the
\* closure reads the caller's contextData object as it is now
ToolExecute(i, toolName) ==
    /\ gen[i].streamTextCalls >= 1
    /\ Declares(gen[i], toolName)
    /\ Len(gen[i].executed) < MaxExecutes
    /\ Update(i, [gen[i] EXCEPT !.executed =
                     Append(@, [toolName |-> toolName,
                                result |-> Execute(gen[i].params.contextData, toolName),
                                contextData |-> gen[i].params.contextData])])
    /\ UNCHANGED <<ids, now, service, calls>>

\* the caller sets a key of the contextData object it passed
CallerSetsKey(i, key, value) ==
    /\ gen[i].streamTextCalls >= 1
    /\ gen[i].params.contextData[1] = "object"
    /\ gen[i].mutations < MaxMutations
    /\ Update(i, [gen[i] EXCEPT !.params.contextData = SetKey(@, key, value),
                                !.mutations = @ + 1])
    /\ UNCHANGED <<ids, now, service, calls>>

\* the caller deletes a key of the contextData object it passed
CallerDeletesKey(i, key) ==
    /\ gen[i].streamTextCalls >= 1
    /\ HasOwn(gen[i].params.contextData, key)
    /\ gen[i].mutations < MaxMutations
    /\ Update(i, [gen[i] EXCEPT !.params.contextData = DeleteKey(@, key),
                                !.mutations = @ + 1])
    /\ UNCHANGED <<ids, now, service, calls>>

ToolNames == { <<"getPrice">>, <<"getNews">>, <<"toString">> }

\* keys the caller changes: those of the declared tools
MutatedKeys == { <<"getPrice">>, <<"getNews">> }

ToolNext ==
    \/ \E i \in ids : Start(i)
    \/ \E i \in ids : \E toolName \in ToolNames : ToolExecute(i, toolName)
    \/ \E i \in ids : \E key \in MutatedKeys : CallerSetsKey(i, key, Str(<<"fresh">>))
    \/ \E i \in ids : \E key \in MutatedKeys : CallerDeletesKey(i, key)

ToolSpec == ToolInit /\ [][ToolNext]_vars

-----------------------------------------------------------------------------
(* Two invocations on one service instance *)

PairInvocations == { 1, 2 }

\* the requests of the two invocations: they differ in every field
PairRequest(i) ==
    IF i = 1
    THEN Request(Arr(<<CopilotMessage>>), Undefined, Arr(<<GetNews>>),
                 Obj(<< <<<<"other">>, Str(<<"cached">>)>> >>))
    ELSE Request(Arr(<<UserMessage, CopilotMessage>>), Str(<<"be", " ", "brief">>),
                 Arr(<<GetPrice, GetNews>>),
                 Obj(<< <<<<"getPrice">>, Obj(<< <<<<"usd">>, Str(<<"1">>)>> >>)>>,
                        <<<<"other">>, Null>> >>))

\* what the provider does in the runs of the pair: one fragment value, one
\* error, one value per way a settlement can go
PairError == NativeError(<<"Stream", " ", "error">>, 0)

PairFragment == <<"Hel">>

PairFinishReasons == { Resolved(Str(<<"stop">>)) }

PairTexts == { Resolved(Str(<<>>)), Resolved(Str(<<" ", "Final", " ", "text">>)), Rejected(PairError) }

\* what the re-read of result.text settles to
PairDelayedTexts == { Resolved(Str(<<" ", "Final", " ", "text">>)) }

PairToolCalls == { Resolved(Arr(<< <<"call-", "1">> >>)) }

PairInit ==
    /\ ids = PairInvocations
    /\ gen = [i \in ids |-> NotCalled]
    /\ now = 0
    /\ service = Constructor(NoService, DefaultConfig)
    /\ calls = <<>>

PairNext ==
    \/ \E i \in ids : StreamMessage(i, PairRequest(i))
    \/ \E i \in ids : Start(i)
    \/ \E i \in ids : StreamTextReturns(i)
    \/ \E i \in ids : StreamTextThrows(i, PairError)
    \/ \E i \in ids : TextStreamChunk(i, PairFragment)
    \/ \E i \in ids : TextStreamDone(i)
    \/ \E i \in ids : ResumeTextStream(i)
    \/ \E i \in ids : FullStreamPart(i, <<"text-delta", PairFragment>>)
    \/ \E i \in ids : FullStreamPart(i, <<"error", PairError>>)
    \/ \E i \in ids : FullStreamDone(i)
    \/ \E i \in ids : ResumeFullStream(i)
    \/ \E i \in ids, outcome \in PairFinishReasons : ValueSettles(i, "finishReason", outcome)
    \/ \E i \in ids, outcome \in PairTexts : ValueSettles(i, "text", outcome)
    \/ \E i \in ids, outcome \in PairToolCalls : ValueSettles(i, "toolCalls", outcome)
    \/ \E i \in ids, name \in TimerNames : TimerFires(i, name)
    \/ \E i \in ids, outcome \in PairDelayedTexts : DelayedTextSettles(i, outcome)
    \/ \E i \in ids : ResumeAfterFinal(i)
    \/ Tick

PairSpec == PairInit /\ [][PairNext]_vars

\* two callers pass the same parameters
TwinRequest == PairRequest(2)

TwinNext ==
    \/ \E i \in ids : StreamMessage(i, TwinRequest)
    \/ \E i \in ids : Start(i)
    \/ \E i \in ids : StreamTextReturns(i)
    \/ \E i \in ids : StreamTextThrows(i, PairError)
    \/ \E i \in ids : TextStreamChunk(i, PairFragment)
    \/ \E i \in ids : TextStreamDone(i)
    \/ \E i \in ids : TextStreamThrows(i, PairError)
    \/ \E i \in ids : ResumeTextStream(i)
    \/ \E i \in ids : FullStreamPart(i, <<"text-delta", PairFragment>>)
    \/ \E i \in ids : FullStreamPart(i, <<"error", PairError>>)
    \/ \E i \in ids : FullStreamDone(i)
    \/ \E i \in ids : FullStreamThrows(i, PairError)
    \/ \E i \in ids : ResumeFullStream(i)
    \/ \E i \in ids, outcome \in PairFinishReasons : ValueSettles(i, "finishReason", outcome)
    \/ \E i \in ids, outcome \in PairTexts : ValueSettles(i, "text", outcome)
    \/ \E i \in ids, outcome \in PairToolCalls : ValueSettles(i, "toolCalls", outcome)
    \/ \E i \in ids, name \in TimerNames : TimerFires(i, name)
    \/ \E i \in ids, outcome \in PairDelayedTexts : DelayedTextSettles(i, outcome)
    \/ \E i \in ids : ResumeAfterFinal(i)
    \/ Tick

TwinSpec == PairInit /\ [][TwinNext]_vars

-----------------------------------------------------------------------------
(* Construction of the service *)

\* the caller constructs a service; after a constructor that threw it may
\* try again with another configuration
Construct(config) ==
    /\ service.state # "constructed"
    /\ service' = Constructor(service, config)
    /\ UNCHANGED <<ids, gen, now, calls>>

ConstructInit ==
    /\ ids = Invocations
    /\ gen = [i \in ids |-> NotCalled]
    /\ now = 0
    /\ service = NoService
    /\ calls = <<>>

ConstructNext ==
    \/ \E config \in Configs : Construct(config)
    \/ \E i \in ids : \E params \in Requests : StreamMessage(i, params)
    \/ \E i \in ids : Start(i)

ConstructSpec == ConstructInit /\ [][ConstructNext]_vars

-----------------------------------------------------------------------------
(* AiSdkError.fromError on its own *)

\* the values fromError is called with: errors of both classes and values
\* that are no errors
ErrorInputs ==
    { NativeError(<<"Test", " ", "error">>, 0),
      NewAiSdkError(<<"classified">>, <<>>, <<>>, 1),
      NewAiSdkError(<<"wrapped">>, <<NativeError(<<"cause">>, 2)>>,
                    <<Obj(<< <<<<"userId">>, Str(<<"user-123">>)>> >>)>>, 3),
      Str(<<"String", " ", "error">>), Str(<<>>), Num(42), Bool(FALSE), Null, Undefined,
      Obj(<< <<<<"code">>, Num(500)>> >>), Arr(<<Str(<<"a">>), Num(1)>>), BareObject }

\* the context argument: not passed, or an object
ErrorContexts == { <<>>, <<Obj(<< <<<<"key">>, Str(<<"value">>)>> >>)>> }

\* id of the error object a call allocates
FreshId == 10 + Len(calls)

\* AiSdkError.fromError(error, context) is called
FromError(error, context) ==
    /\ Len(calls) < MaxCalls
    /\ calls' = Append(calls, [fn |-> "fromError", arg |-> error, context |-> context,
                               outcome |-> fromErrorCall(error, context, FreshId)])
    /\ UNCHANGED <<ids, gen, now, service>>

\* AiSdkError.fromError is called with what an earlier call returned
FromErrorOfResult(k, context) ==
    /\ Len(calls) < MaxCalls
    /\ calls[k].fn = "fromError"
    /\ calls[k].outcome[1] = "returned"
    /\ calls' = Append(calls, [fn |-> "fromError", arg |-> calls[k].outcome[2],
                               context |-> context,
                               outcome |-> fromErrorCall(calls[k].outcome[2], context, FreshId)])
    /\ UNCHANGED <<ids, gen, now, service>>

ErrorInit ==
    /\ ids = Invocations
    /\ gen = [i \in ids |-> NotCalled]
    /\ now = 0
    /\ service = NoService
    /\ calls = <<>>

ErrorNext ==
    \/ \E error \in ErrorInputs : \E context \in ErrorContexts : FromError(error, context)
    \/ \E k \in 1..Len(calls) : \E context \in ErrorContexts : FromErrorOfResult(k, context)

ErrorSpec == ErrorInit /\ [][ErrorNext]_vars

-----------------------------------------------------------------------------
(* Calls of jsonSchemaToZod and of the validators it returns *)

OptionalFlag == Obj(<< <<<<"verbose">>, [type |-> <<"boolean">>, items |-> Undefined]>> >>)

\* the arguments jsonSchemaToZod is called with: no schema, values that are
\* no schema object, schema objects without type "object", schema objects
\* without properties, and schema objects of type "object" with properties
ZodSchemas ==
    { Undefined, Null, Str(<<"not", " ", "an", " ", "object">>), Str(<<>>), Arr(<<>>),
      Schema(Undefined, Undefined, Undefined),
      Schema(Str(<<"string">>), Undefined, Undefined),
      Schema(Str(<<"string">>), OptionalFlag, Undefined),
      Schema(Undefined, ObjectSchema[2].properties, ObjectSchema[2].required),
      Schema(Str(<<"object">>), Undefined, Undefined),
      Schema(Str(<<"object">>), Null, Arr(<< <<"symbol">> >>)),
      Schema(Str(<<"object">>), Obj(<<>>), Undefined),
      Schema(Str(<<"object">>), OptionalFlag, Undefined),
      ObjectSchema }

\* the values the validators are asked to parse
ParseInputs ==
    { Obj(<<>>),
      Obj(<< <<<<"anyField">>, Str(<<"value">>)>> >>),
      Obj(<< <<<<"symbol">>, Num(1)>>, <<<<"verbose">>, Str(<<"yes">>)>> >>),
      Obj(<< <<<<"symbol">>, Str(<<"BTC">>)>>, <<<<"tags">>, Arr(<<Num(1)>>)>> >>),
      Obj(<< <<<<"symbol">>, Str(<<"BTC">>)>>, <<<<"tags">>, Arr(<<Str(<<"x">>)>>)>> >>),
      Obj(<< <<<<"symbol">>, Undefined>>, <<<<"extra">>, Null>> >>),
      Str(<<"value">>), Null, Undefined, Arr(<<>>) }

DeclaredTools == { GetPrice, GetNews, ToStringTool }

\* jsonSchemaToZod(schema) is called
Convert(schema) ==
    /\ Len(calls) < MaxCalls
    /\ calls' = Append(calls, [fn |-> "jsonSchemaToZod", arg |-> schema,
                               validator |-> jsonSchemaToZod(schema)])
    /\ UNCHANGED <<ids, gen, now, service>>

\* the tool mapping is built for one declared tool (lines 87-113)
DeclareTool(toolDef) ==
    /\ Len(calls) < MaxCalls
    /\ calls' = Append(calls,
                       [fn |-> "tool", arg |-> toolDef.parameters,
                        validator |-> BuildTools(Request(Undefined, Undefined, Arr(<<toolDef>>),
                                                         Undefined))[2][1][2].parameters])
    /\ UNCHANGED <<ids, gen, now, service>>

\* validator.safeParse(value) is called on a validator obtained before
Validate(k, value) ==
    /\ Len(calls) < MaxCalls
    /\ calls[k].fn \in {"jsonSchemaToZod", "tool"}
    /\ calls' = Append(calls, [fn |-> "safeParse", arg |-> value, of |-> k,
                               validator |-> calls[k].validator,
                               success |-> SafeParse(calls[k].validator, value)])
    /\ UNCHANGED <<ids, gen, now, service>>

ZodNext ==
    \/ \E schema \in ZodSchemas : Convert(schema)
    \/ \E toolDef \in DeclaredTools : DeclareTool(toolDef)
    \/ \E k \in 1..Len(calls) : \E value \in ParseInputs : Validate(k, value)

ZodSpec == ErrorInit /\ [][ZodNext]_vars

TypeOK ==
    /\ now \in 0..(Cardinality(ids)
                    * (FinishReasonTimeout + TextTimeout + ToolCallsTimeout + GraceDelay))
    /\ \A i \in ids : gen[i].chunkCount \in 0..(MaxPrimary + MaxSecondary)

-----------------------------------------------------------------------------
(* Vocabulary of the properties *)

Completed(g) == g.pc = "completed"

RECURSIVE TextDeltasOf(_)
TextDeltasOf(log) ==
    IF log = <<>> THEN <<>>
    ELSE IF Head(log)[1] = "text-delta"
         THEN <<Head(log)[2]>> \o TextDeltasOf(Tail(log))
         ELSE TextDeltasOf(Tail(log))

HasErrorEvent(log) == \E k \in 1..Len(log) : log[k][1] = "error"

Front(q) == SubSeq(q, 1, Len(q) - 1)

\* the primary channel ended without a fragment
PrimaryEmpty(g) == g.textStreamEnded /\ g.textStreamLog = <<>>

\* both channels ended and neither carried a fragment or an error event
BothChannelsEmpty(g) ==
    /\ PrimaryEmpty(g)
    /\ g.fullStreamEnded
    /\ TextDeltasOf(g.fullStreamLog) = <<>>
    /\ ~HasErrorEvent(g.fullStreamLog)

\* the value resolved and thereby decided its race
ResolvedInTime(g, name) == g.races[name] = "value" /\ g.promises[name][1] = "resolved"

NonBlank(s) == \E k \in 1..Len(s) : s[k] # " "

SettlementReads == { "finishReason", "text", "toolCalls" }

ReadsOf(g) == { g.reads[k] : k \in 1..Len(g.reads) }

-----------------------------------------------------------------------------
(* Properties *)

\* C1: once the primary channel (textStream) has delivered at least one
\* fragment, the fragments yielded are exactly the fragments delivered, in
\* order; the secondary channel and the settlement values are never read, no
\* timer is started; and when the channel then ends the invocation completes
\* normally.
C1_PrimaryPassThrough ==
    \A i \in ids :
       Len(gen[i].textStreamLog) >= 1 =>
          /\ gen[i].yielded = gen[i].textStreamLog
          /\ gen[i].reads = <<"textStream">>
          /\ \A n \in TimerNames : gen[i].timers[n].status = "idle"
          /\ gen[i].textStreamEnded =>
                (Completed(gen[i]) /\ gen[i].outcome = "returned" /\ gen[i].thrown = <<>>)

C1_Witness ==
    \E i \in ids :
       /\ Completed(gen[i])
       /\ gen[i].textStreamEnded
       /\ Len(gen[i].textStreamLog) >= 2
       /\ gen[i].yielded = gen[i].textStreamLog

\* C2: if the primary channel ended without a fragment and the secondary
\* channel (fullStream) delivered events the last of which is an error event,
\* then the invocation has yielded exactly the text deltas that preceded the
\* error event, in order, and has raised an error made from the error event:
\* its message is the message of the event's Error (or the string form of a
\* value that is no Error) and its cause is the event's error.
C2_SecondaryErrorAfterDeltas ==
    \A i \in ids :
       LET g == gen[i]
           log == g.fullStreamLog
       IN (PrimaryEmpty(g) /\ log # <<>> /\ log[Len(log)][1] = "error") =>
             LET e == log[Len(log)][2]
             IN /\ g.yielded = TextDeltasOf(Front(log))
                /\ Completed(g)
                /\ g.outcome = "threw"
                /\ g.thrown # <<>>
                /\ g.thrown[1][2].kind = "AiSdkError"
                /\ g.thrown[1][2].message = (IF e[1] = "error" THEN e[2].message ELSE e[2])
                /\ g.thrown[1][2].originalError = <<e>>

C2_Witness ==
    \E i \in ids :
       LET log == gen[i].fullStreamLog
       IN /\ PrimaryEmpty(gen[i])
          /\ Len(log) = 2
          /\ log[1][1] = "text-delta"
          /\ log[2][1] = "error"
          /\ Completed(gen[i])
          /\ gen[i].yielded = <<log[1][2]>>

\* C3: if both channels ended without a fragment and finishReason, text and
\* toolCalls each resolved before its timer fired, the final text holding a
\* character that is no whitespace, then the invocation yields exactly one
\* fragment, the final text untrimmed, raises nothing, and completes normally
\* at the caller's next request, whatever toolCalls resolved to.
C3_FinalTextYieldedOnce ==
    \A i \in ids :
       LET g == gen[i]
       IN (/\ BothChannelsEmpty(g)
           /\ \A n \in SettlementReads : ResolvedInTime(g, n)
           /\ g.promises["text"][2][1] = "string"
           /\ NonBlank(g.promises["text"][2][2])) =>
             /\ g.yielded = <<g.promises["text"][2][2]>>
             /\ g.thrown = <<>>
             /\ g.timers["grace"].status = "idle"
             /\ g.pc \in {"yieldFinalText", "completed"}
             /\ Completed(g) => g.outcome = "returned"

C3_Witness ==
    \E i \in ids :
       /\ BothChannelsEmpty(gen[i])
       /\ \A n \in SettlementReads : ResolvedInTime(gen[i], n)
       /\ gen[i].promises["toolCalls"][2] # Undefined
       /\ Len(gen[i].promises["toolCalls"][2][2]) >= 1
       /\ gen[i].yielded = << <<" ", "Final", " ", "text">> >>
       /\ Completed(gen[i])
       /\ gen[i].outcome = "returned"

CountOf(q, x) == Cardinality({ k \in 1..Len(q) : q[k] = x })

\* finishReason, text and toolCalls resolved in time, the text without a
\* character that is no whitespace
SettledWithoutText(g) ==
    /\ BothChannelsEmpty(g)
    /\ \A n \in SettlementReads : ResolvedInTime(g, n)
    /\ g.promises["text"][2][1] = "string"
    /\ ~NonBlank(g.promises["text"][2][2])

ToolCallCount(g) ==
    IF g.promises["toolCalls"][2][1] = "array" THEN Len(g.promises["toolCalls"][2][2]) ELSE 0

\* the finish-reason tag as an error message prints it
FinishReasonTag(g) ==
    LET v == g.promises["finishReason"][2]
    IN IF v[1] = "string" /\ v[2] # <<>> THEN v[2] ELSE <<"unknown">>

RaisedMessage(g) == g.thrown[1][2].message

\* seconds a race's timer runs
Deadline(name) == IF name = "finishReason" THEN 5 ELSE 30

\* C4: if both channels ended without a fragment, the first read of the final
\* text resolved to empty or whitespace-only text and toolCalls resolved to at
\* least one tool invocation, then result.text is read a second time only
\* after the grace timer has fired, one second or more after it was started,
\* and if that re-read resolves to text holding a character that is no
\* whitespace, the invocation yields exactly that text, raises nothing and
\* completes normally at the caller's next request.
C4_RereadAfterGrace ==
    \A i \in ids :
       LET g == gen[i]
           delayed == g.promises["delayedText"]
       IN (SettledWithoutText(g) /\ ToolCallCount(g) >= 1) =>
             /\ g.timers["grace"].status # "idle"
             /\ CountOf(g.reads, "text") \in {1, 2}
             /\ CountOf(g.reads, "text") = 2 =>
                   /\ g.timers["grace"].status = "fired"
                   /\ now >= g.timers["grace"].started + 1
             /\ g.timers["grace"].status = "pending" =>
                   (g.pc = "grace" /\ delayed = Pending)
             /\ (delayed[1] = "resolved" /\ NonBlank(delayed[2][2])) =>
                   /\ g.yielded = <<delayed[2][2]>>
                   /\ g.thrown = <<>>
                   /\ g.pc \in {"yieldDelayedText", "completed"}
                   /\ Completed(g) => g.outcome = "returned"

C4_Witness ==
    \E i \in ids :
       /\ SettledWithoutText(gen[i])
       /\ ToolCallCount(gen[i]) >= 1
       /\ gen[i].promises["text"][2][2] = <<" ">>
       /\ gen[i].timers["grace"].status = "fired"
       /\ gen[i].yielded = << <<" ", "Final", " ", "text">> >>
       /\ Completed(gen[i])
       /\ gen[i].outcome = "returned"

\* C5: if both channels ended without a fragment, n >= 1 tool invocations
\* occurred, the first read of the final text resolved to empty or
\* whitespace-only text and the re-read after the grace period did so too or
\* rejected, then the invocation has yielded nothing and has raised an error
\* whose message says that tools were called without generating text, with the
\* count n and the finish-reason tag ("unknown" for a falsy finish-reason).
C5_NoTextAfterTools ==
    \A i \in ids :
       LET g == gen[i]
           delayed == g.promises["delayedText"]
       IN (/\ SettledWithoutText(g)
           /\ ToolCallCount(g) >= 1
           /\ \/ delayed[1] = "rejected"
              \/ delayed[1] = "resolved" /\ ~NonBlank(delayed[2][2])) =>
             /\ Completed(g)
             /\ g.outcome = "threw"
             /\ g.yielded = <<>>
             /\ g.thrown # <<>>
             /\ Includes(RaisedMessage(g),
                         <<"AI SDK called tools but did not generate text. ToolCalls: ",
                           ToString(ToolCallCount(g)), ", FinishReason: ">>
                           \o FinishReasonTag(g))

C5_Witness ==
    \E i \in ids :
       /\ SettledWithoutText(gen[i])
       /\ ToolCallCount(gen[i]) >= 1
       /\ gen[i].promises["delayedText"] = Resolved(Str(<<" ">>))
       /\ gen[i].promises["finishReason"] = Resolved(Str(<<"stop">>))
       /\ gen[i].outcome = "threw"

\* what an error message prints for the request: message count, tool count
\* and the contextData keys, or "none" without contextData
RequestShape(g) ==
    <<"Messages: ", ToString(Len(g.streamTextArgs[1].messages)),
      ", Tools: ", ToString(IF g.params.tools[1] = "array" THEN Len(g.params.tools[2]) ELSE 0),
      ", ContextData keys: ">>
      \o (IF g.params.contextData[1] = "object"
          THEN Join([k \in 1..Len(g.params.contextData[2]) |-> g.params.contextData[2][k][1]],
                    <<", ">>)
          ELSE <<"none">>)

\* C6: if both channels ended without a fragment, the final text resolved to
\* empty or whitespace-only text and toolCalls resolved to an empty list or to
\* undefined, then the invocation has yielded nothing and has raised an error
\* whose message says that the stream completed without generating any chunks
\* or text, with the message count, the tool count, the contextData keys (or
\* "none"), the finish-reason tag and the tool-invocation count 0; the grace
\* timer is never started and result.text is read once only.
C6_EmptyStream ==
    \A i \in ids :
       LET g == gen[i]
       IN (SettledWithoutText(g) /\ ToolCallCount(g) = 0) =>
             /\ Completed(g)
             /\ g.outcome = "threw"
             /\ g.yielded = <<>>
             /\ g.thrown # <<>>
             /\ Includes(RaisedMessage(g),
                         <<"AI SDK stream completed without generating any chunks or text. ">>
                           \o RequestShape(g)
                           \o <<", FinishReason: ">> \o FinishReasonTag(g)
                           \o <<", ToolCalls: ", "0">>)
             /\ g.timers["grace"].status = "idle"
             /\ CountOf(g.reads, "text") = 1
             /\ g.promises["delayedText"] = Pending

C6_Witness ==
    \E i \in ids :
       /\ SettledWithoutText(gen[i])
       /\ gen[i].promises["toolCalls"] = Resolved(Arr(<<>>))
       /\ Len(gen[i].params.contextData) = 2
       /\ Len(gen[i].params.contextData[2]) = 2
       /\ gen[i].outcome = "threw"

\* C7: a settlement race that its timer decides ends the invocation with no
\* fragment yielded and with a raised error whose message names the value
\* ("Timeout waiting for result.<value>"); such an error is raised only when
\* the timer of that value has fired, 5 seconds (finishReason) or 30 seconds
\* (text, toolCalls) or more after the race started; and a timer that fires
\* while its value has not settled decides the race.
C7_SettlementTimeout ==
    \A i \in ids : \A n \in SettlementReads :
       LET g == gen[i]
       IN /\ g.races[n] = "timeout" =>
                /\ Completed(g)
                /\ g.outcome = "threw"
                /\ g.yielded = <<>>
                /\ Includes(RaisedMessage(g), <<"Timeout waiting for result.", n>>)
          /\ (g.thrown # <<>> /\ Includes(RaisedMessage(g), <<"Timeout waiting for result.", n>>)) =>
                /\ g.races[n] = "timeout"
                /\ g.timers[n].status = "fired"
                /\ now >= g.timers[n].started + Deadline(n)
          /\ (g.timers[n].status = "fired" /\ g.races[n] # "value") => g.races[n] = "timeout"
          /\ (g.pc = RaceOf(n) /\ g.promises[n] = Pending) => g.timers[n].status = "pending"

C7_Witness ==
    \E i \in ids :
       /\ gen[i].races["finishReason"] = "value"
       /\ gen[i].races["text"] = "value"
       /\ gen[i].races["toolCalls"] = "timeout"
       /\ gen[i].promises["toolCalls"] = Pending
       /\ gen[i].outcome = "threw"
       /\ now >= 30

\* C8: with the provider call returning, both channels ending and every
\* started timer firing, every invocation whose first item is requested
\* eventually terminates, whether finishReason, text, toolCalls and the
\* re-read of the final text resolve, reject or never settle.
C8_Terminates ==
    \A i \in Invocations : (gen[i].pc = "suspendedStart") ~> Completed(gen[i])

\* What holds instead: an invocation terminates or waits for the re-read of
\* result.text, the one await of the settlement tier that no timer bounds.
TerminatesUnlessRereadHangs ==
    \A i \in Invocations :
       (gen[i].pc = "suspendedStart") ~> (Completed(gen[i]) \/ gen[i].pc = "awaitDelayedText")

C9_State(g) ==
    /\ g.outcome \in {"none", "returned", "threw"}
    /\ Completed(g) <=> g.outcome # "none"
    /\ g.outcome = "threw" <=> g.thrown # <<>>
    /\ g.throws = (IF g.outcome = "threw" THEN 1 ELSE 0)
    /\ Len(g.yielded) <= Len(g.textStreamLog) + Len(g.fullStreamLog) + 1

C9_Step(g, h) ==
    Completed(g) =>
       /\ Completed(h)
       /\ h.yielded = g.yielded
       /\ h.outcome = g.outcome
       /\ h.thrown = g.thrown
       /\ h.throws = g.throws
       /\ h.streamTextCalls = g.streamTextCalls
       /\ h.reads = g.reads

\* C9: an invocation ends in exactly one way, normal completion or one raised
\* error, having yielded finitely many fragments; once it has ended, no
\* request of the caller and no later event yields another fragment, raises
\* another error, changes the ending or calls the provider again.
C9_EndsOnce ==
    /\ [](\A i \in Invocations : C9_State(gen[i]))
    /\ [][\A i \in Invocations : C9_Step(gen[i], gen'[i])]_vars

C9_Witness ==
    \E i \in ids :
       /\ Completed(gen[i])
       /\ gen[i].outcome = "threw"
       /\ gen[i].throws = 1
       /\ Len(gen[i].yielded) >= 1

\* C10: streamText has not been called while the caller has not requested the
\* first item, and it has been called exactly once at every later point of the
\* invocation, on every path.
C10_ProviderCalledOnce ==
    \A i \in ids :
       /\ gen[i].pc \in {"notCalled", "suspendedStart"} =>
             (gen[i].streamTextCalls = 0 /\ gen[i].reads = <<>>)
       /\ gen[i].pc \notin {"notCalled", "suspendedStart"} => gen[i].streamTextCalls = 1

C10_Witness ==
    \E i \in ids :
       /\ gen[i].pc = "completed"
       /\ gen[i].outcome = "threw"
       /\ gen[i].promises["delayedText"][1] = "rejected"
       /\ gen[i].streamTextCalls = 1

\* the result properties in the order the three tiers read them
TierOrder == <<"textStream", "fullStream", "finishReason", "text", "toolCalls", "text">>

IsPrefix(p, q) == Len(p) <= Len(q) /\ p = SubSeq(q, 1, Len(p))

\* C11: the tiers run in the order primary, secondary, settlement, and a tier
\* is entered only when every earlier tier has ended with no fragment yielded:
\* the secondary channel is read only after the primary channel ended empty,
\* a settlement value is read only after both channels ended empty, and once
\* the secondary channel has delivered a text delta no settlement value is
\* read, no timer is started and the fragments yielded are the text deltas
\* alone, with no final text after them.
C11_TiersInOrder ==
    \A i \in ids :
       LET g == gen[i]
       IN /\ IsPrefix(g.reads, TierOrder)
          /\ "fullStream" \in ReadsOf(g) => PrimaryEmpty(g)
          /\ ReadsOf(g) \cap SettlementReads # {} =>
                /\ PrimaryEmpty(g)
                /\ g.fullStreamEnded
                /\ TextDeltasOf(g.fullStreamLog) = <<>>
          /\ TextDeltasOf(g.fullStreamLog) # <<>> =>
                /\ ReadsOf(g) \cap SettlementReads = {}
                /\ \A n \in TimerNames : g.timers[n].status = "idle"
                /\ g.yielded = TextDeltasOf(g.fullStreamLog)
                /\ (g.fullStreamEnded /\ ~HasErrorEvent(g.fullStreamLog)) =>
                      (Completed(g) /\ g.outcome = "returned")

C11_Witness ==
    \E i \in ids :
       /\ PrimaryEmpty(gen[i])
       /\ gen[i].fullStreamEnded
       /\ ~HasErrorEvent(gen[i].fullStreamLog)
       /\ Len(TextDeltasOf(gen[i].fullStreamLog)) >= 1
       /\ Completed(gen[i])
       /\ gen[i].outcome = "returned"

\* the value rejected while its race was undecided
RejectedInRace(g, name) == g.races[name] = "value" /\ g.promises[name][1] = "rejected"

\* C12: when finishReason, text or toolCalls rejects with cause c while the
\* settlement tier awaits it, the invocation has yielded nothing and has
\* raised an AiSdkError whose message says that the stream completed without
\* chunks and that the final result could not be got, with the message count,
\* the tool count and the contextData keys, and whose original error is c.
C12_SettlementRejection ==
    \A i \in ids : \A n \in SettlementReads :
       LET g == gen[i]
       IN RejectedInRace(g, n) =>
             LET c == g.promises[n][2]
             IN /\ Completed(g)
                /\ g.outcome = "threw"
                /\ g.yielded = <<>>
                /\ g.thrown # <<>>
                /\ InstanceOfAiSdkError(g.thrown[1])
                /\ Includes(RaisedMessage(g),
                            <<"AI SDK stream completed without generating any chunks. ">>
                              \o RequestShape(g)
                              \o <<". Error getting final result: ">>)
                /\ g.thrown[1][2].originalError = <<c>>

C12_Witness ==
    \E i \in ids :
       /\ RejectedInRace(gen[i], "toolCalls")
       /\ InstanceOfError(gen[i].promises["toolCalls"][2])
       /\ Len(gen[i].params.contextData) = 2
       /\ Len(gen[i].params.contextData[2]) = 2
       /\ gen[i].outcome = "threw"
       /\ gen[i].thrown[1][2].originalError = <<gen[i].promises["toolCalls"][2]>>

\* the raised error is a new classified error made around a classified error
WrapsClassified(e) ==
    /\ InstanceOfAiSdkError(e)
    /\ e[2].originalError # <<>>
    /\ InstanceOfAiSdkError(e[2].originalError[1])

\* C13: an error that a tier created as a classified error reaches the caller
\* as that instance: the error raised after an error event of the secondary
\* channel is the stream error itself, and no raised error is a new
\* classified error wrapped around a classified error (a timeout, a
\* no-text-after-tools or an empty-stream error).
C13_SameInstance ==
    \A i \in ids :
       LET g == gen[i]
       IN g.thrown # <<>> =>
             /\ g.streamError # Null => g.thrown[1] = g.streamError
             /\ ~WrapsClassified(g.thrown[1])

\* What holds instead: the stream error of the secondary tier is raised as
\* the same instance, and every error the settlement tier creates is raised
\* inside a new error made by catch (resultError).
ClassifiedErrorsOnTheWayOut ==
    \A i \in ids :
       LET g == gen[i]
       IN g.thrown # <<>> =>
             /\ g.streamError # Null => g.thrown[1] = g.streamError
             /\ (\E n \in SettlementReads : g.races[n] = "timeout") => WrapsClassified(g.thrown[1])
             /\ WrapsClassified(g.thrown[1]) =>
                   Includes(RaisedMessage(g), <<". Error getting final result: ">>)

\* C14: the message of every error raised to the caller, whatever the tier
\* that failed (the provider call, the primary channel, an error event of the
\* secondary channel, the settlement), contains the message count, the tool
\* count and the contextData keys (or "none") of the request.
C14_ShapeInEveryMessage ==
    \A i \in ids :
       gen[i].thrown # <<>> => Includes(RaisedMessage(gen[i]), RequestShape(gen[i]))

\* What holds instead: the message carries the request shape when the
\* settlement tier raised the error; for a failure of the provider call or of
\* a channel the shape is in the context of the raised error, its message
\* being the failure's own; for an error event of the secondary channel it is
\* in neither.
ShapeWhereTheCodePutsIt ==
    \A i \in ids :
       LET g == gen[i]
           e == g.thrown[1][2]
           inMessage == Includes(e.message, RequestShape(g))
           inContext == e.context # <<>> /\ Includes(e.context[1], RequestShape(g))
       IN g.thrown # <<>> =>
             /\ inMessage <=> (ReadsOf(g) \cap SettlementReads # {})
             /\ inContext <=> (g.streamError = Null /\ ReadsOf(g) \cap SettlementReads = {})
             /\ g.streamError # Null => (~inMessage /\ ~inContext)

-----------------------------------------------------------------------------
(* Properties of the message list and of the tool mapping *)

\* streamText was called: the message list and the tool mapping are built
Built(g) == g.streamTextCalls >= 1

\* the message list passed to the provider
Passed(g) == g.streamTextArgs[1].messages

HistoryLength(g) ==
    IF g.params.conversationHistory = Undefined THEN 0
    ELSE Len(g.params.conversationHistory[2])

\* number of keys of the contextData the lists were built from
KeyCount(g) ==
    IF g.contextDataAtBuild[1] = "object" THEN Len(g.contextDataAtBuild[2]) ELSE 0

UserTurn(g) == [role |-> "user", content |-> Str(g.params.text)]

SyntheticAssistantTurns(m) ==
    { x \in 1..Len(m) : m[x].role = "assistant" /\ IsArray(m[x].content) }

ToolTurns(m) == { x \in 1..Len(m) : m[x].role = "tool" }

\* C16: for a contextData with k >= 1 keys the message list holds exactly one
\* synthetic assistant turn, with k tool-call parts, one per key in key order,
\* each with empty arguments, and right after it exactly k tool-result turns,
\* one per key in the same order, each with one result that carries the value
\* of the key and the toolCallId and toolName of the key's tool-call part.
C16_SyntheticTurns ==
    \A i \in ids :
       LET g == gen[i]
           m == Passed(g)
           k == KeyCount(g)
           entries == g.contextDataAtBuild[2]
       IN (Built(g) /\ k >= 1) =>
             /\ Cardinality(SyntheticAssistantTurns(m)) = 1
             /\ Cardinality(ToolTurns(m)) = k
             /\ LET a == CHOOSE x \in SyntheticAssistantTurns(m) : TRUE
                    parts == m[a].content[2]
                IN /\ Len(parts) = k
                   /\ ToolTurns(m) = (a + 1)..(a + k)
                   /\ \A j \in 1..k :
                         /\ parts[j].type = "tool-call"
                         /\ parts[j].toolName = entries[j][1]
                         /\ parts[j].args = Obj(<<>>)
                         /\ IsArray(m[a + j].content)
                         /\ Len(m[a + j].content[2]) = 1
                         /\ LET r == m[a + j].content[2][1]
                            IN /\ r.type = "tool-result"
                               /\ r.result = entries[j][2]
                               /\ r.toolCallId = parts[j].toolCallId
                               /\ r.toolName = parts[j].toolName

C16_Witness ==
    \E i \in ids :
       LET g == gen[i]
       IN /\ Built(g)
          /\ KeyCount(g) = 2
          /\ HistoryLength(g) >= 1
          /\ g.contextDataAtBuild[2][1][2] # g.contextDataAtBuild[2][2][2]
          /\ Cardinality(ToolTurns(Passed(g))) = 2

\* C17: when contextData is absent or is an object without keys, no synthetic
\* turn is made: the message list passed to the provider has
\* |conversationHistory| + 1 elements, each with role user or assistant and
\* with text as its content.
C17_NoSyntheticTurns ==
    \A i \in ids :
       LET g == gen[i]
           m == Passed(g)
       IN (Built(g) /\ (g.contextDataAtBuild = Undefined \/ g.contextDataAtBuild = Obj(<<>>))) =>
             /\ Len(m) = HistoryLength(g) + 1
             /\ \A x \in 1..Len(m) :
                   m[x].role \in { "user", "assistant" } /\ IsString(m[x].content)

C17_Witness ==
    \E i \in ids :
       /\ Built(gen[i])
       /\ gen[i].contextDataAtBuild = Obj(<<>>)
       /\ HistoryLength(gen[i]) = 2
       /\ Len(Passed(gen[i])) = 3

\* the calls of execute made so far, each with the name of its tool, what it
\* returned and the contextData object as it was at the call
Calls(g) == { g.executed[x] : x \in 1..Len(g.executed) }

\* contextData has no data for the tool: it is absent, has no key of that
\* name, or holds null or undefined under it
NoDataFor(contextData, toolName) ==
    \/ contextData[1] # "object"
    \/ ~HasOwn(contextData, toolName)
    \/ Lookup(contextData, toolName) \in { Null, Undefined }

\* C18: execute of a declared tool returns the sentinel
\* { error: "Data should be pre-fetched by Chat Service" } whenever contextData
\* is absent, has no key with the tool's name, or holds null or undefined
\* under that key.
C18_SentinelWithoutData ==
    \A i \in ids : \A c \in Calls(gen[i]) :
       NoDataFor(c.contextData, c.toolName) => c.result = Sentinel

\* What holds instead: execute returns the sentinel in those cases unless the
\* tool's name is the name of a property that the contextData object inherits.
SentinelUnlessInherited ==
    \A i \in ids : \A c \in Calls(gen[i]) :
       NoDataFor(c.contextData, c.toolName) =>
          IF c.contextData[1] = "object" /\ ~HasOwn(c.contextData, c.toolName)
                /\ c.toolName \in ObjectPrototypeKeys
          THEN c.result = <<"function", c.toolName>>
          ELSE c.result = Sentinel

C20_SnapshotAtBuild ==
    \A i \in ids : \A c \in Calls(gen[i]) :
       /\ c.result = Execute(gen[i].contextDataAtBuild, c.toolName)
       /\ \A d \in Calls(gen[i]) : d.toolName = c.toolName => d.result = c.result

\* What holds instead: execute returns what the caller's contextData object
\* gives at the time of the call; that is the value of build time as long as
\* the caller has not changed the object.
ExecuteReadsLiveObject ==
    \A i \in ids : \A c \in Calls(gen[i]) :
       /\ c.result = Execute(c.contextData, c.toolName)
       /\ c.contextData = gen[i].contextDataAtBuild =>
             c.result = Execute(gen[i].contextDataAtBuild, c.toolName)

\* the tool mapping passed to the provider
PassedTools(g) == g.streamTextArgs[1].tools

-----------------------------------------------------------------------------
(* Properties of the construction and of the provider call *)

\* a string that is given and not empty
NonEmptyString(v) == IsString(v) /\ v[2] # <<>>

-----------------------------------------------------------------------------
(* Properties of AiSdkError.fromError *)

FromErrorCalls == { k \in 1..Len(calls) : calls[k].fn = "fromError" }

\* C23: fromError returns its argument itself, with the id, message, cause
\* and context it had, whenever the argument is an AiSdkError, whatever
\* context is passed; hence fromError applied to what fromError returned
\* returns that same instance.
C23_PassThrough ==
    \A k \in FromErrorCalls :
       /\ InstanceOfAiSdkError(calls[k].arg) => calls[k].outcome = <<"returned", calls[k].arg>>
       /\ \A m \in FromErrorCalls :
             (calls[k].outcome[1] = "returned" /\ calls[m].arg = calls[k].outcome[2]) =>
                calls[m].outcome = calls[k].outcome

C23_Witness ==
    /\ Len(calls) = 2
    /\ InstanceOfError(calls[1].arg)
    /\ ~InstanceOfAiSdkError(calls[1].arg)
    /\ calls[1].context = <<>>
    /\ calls[1].outcome[1] = "returned"
    /\ calls[2].arg = calls[1].outcome[2]
    /\ calls[2].context # <<>>
    /\ calls[2].outcome = calls[1].outcome

\* what fromError makes of an argument that is no AiSdkError: a new
\* AiSdkError with the Error's message, or the string form of another value,
\* as its message, the argument as its cause and the context passed
MadeFrom(k) ==
    /\ calls[k].outcome[1] = "returned"
    /\ InstanceOfAiSdkError(calls[k].outcome[2])
    /\ calls[k].outcome[2] # calls[k].arg
    /\ calls[k].outcome[2][2].id = 10 + (k - 1)
    /\ calls[k].outcome[2][2].message =
          (IF InstanceOfError(calls[k].arg) THEN calls[k].arg[2].message
           ELSE StringOf(calls[k].arg))
    /\ calls[k].outcome[2][2].originalError = <<calls[k].arg>>
    /\ calls[k].outcome[2][2].context = calls[k].context

\* C24: for every argument that is not an AiSdkError, fromError throws
\* nothing and returns a new AiSdkError: for an Error its message is the
\* Error's message and its cause the Error; for any other value (string,
\* number, object, null, undefined) its message is the string form of the
\* value and its cause the value.
C24_NewErrorNeverThrows ==
    \A k \in FromErrorCalls : ~InstanceOfAiSdkError(calls[k].arg) => MadeFrom(k)

\* What holds instead: the same for every argument that has a string form;
\* for an object that cannot be converted to a primitive, String(error)
\* throws a TypeError out of fromError.
NewErrorUnlessNoStringForm ==
    \A k \in FromErrorCalls :
       ~InstanceOfAiSdkError(calls[k].arg) =>
          IF InstanceOfError(calls[k].arg) \/ HasStringForm(calls[k].arg)
          THEN MadeFrom(k)
          ELSE calls[k].outcome = <<"threw", TypeErrorNoPrimitive>>

-----------------------------------------------------------------------------
(* Properties of an abandoned iteration *)

\* C25: once the caller has abandoned the iteration after a fragment, the
\* invocation is over without an error and does nothing more: no further
\* channel item is consumed, no further result property is read (so no later
\* tier is entered and no settlement value awaited), no timer is started and
\* no further fragment is yielded.
C25_NothingAfterAbandon ==
    \A i \in ids :
       LET g == gen[i]
       IN g.abandonedAt # <<>> =>
             /\ Completed(g)
             /\ g.outcome = "returned"
             /\ g.thrown = <<>>
             /\ Footprint(g) = g.abandonedAt[1]

C25_Witness ==
    \E i \in ids :
       LET g == gen[i]
       IN /\ g.abandonedAt # <<>>
          /\ PrimaryEmpty(g)
          /\ g.yielded = TextDeltasOf(g.fullStreamLog)
          /\ Len(g.yielded) = 1
          /\ ~g.fullStreamEnded
          /\ g.reads = <<"textStream", "fullStream">>

-----------------------------------------------------------------------------
(* Invocations that run at the same time *)

\* what an invocation computes from its own parameters and from what the
\* provider delivered to it, whatever else runs
OwnResults(g) ==
    /\ Built(g) =>
          /\ Passed(g) = BuildMessages(g.params)
          /\ PassedTools(g) = BuildTools(g.params)
          /\ g.streamTextArgs[1].system = g.params.systemPrompt
    /\ LET delivered == IF g.textStreamLog # <<>> THEN g.textStreamLog
                        ELSE TextDeltasOf(g.fullStreamLog)
       IN IF delivered # <<>>
          THEN g.chunkCount = Len(delivered) /\ g.yielded = delivered
          ELSE g.chunkCount \in {0, Len(g.yielded)} /\ Len(g.yielded) <= 1
    /\ C9_State(g)

\* C26: with two invocations of streamMessage interleaved on one service
\* instance, each invocation's message list and tool mapping are those built
\* from its own parameters, its fragment count counts its own fragments, and
\* the laws of an invocation that runs alone (pass-through of the primary
\* channel, deltas and error of the secondary channel, the final text yielded
\* once, one provider call, one ending) hold for each; a step of one
\* invocation changes nothing of the other, and no step changes the service's
\* config or model.
C26_Isolation ==
    /\ [](\A i \in ids : OwnResults(gen[i]))
    /\ [](/\ C1_PrimaryPassThrough
          /\ C2_SecondaryErrorAfterDeltas
          /\ C3_FinalTextYieldedOnce
          /\ C10_ProviderCalledOnce)
    /\ [][\A i \in ids : gen'[i] # gen[i] => \A j \in ids \ {i} : gen'[j] = gen[j]]_vars
    /\ [][service' = service /\ service.config = <<DefaultConfig>>]_vars

\* the two invocations ran interleaved and ended differently: one yielded
\* the fragments of its primary channel, the other raised an error
C26_Witness ==
    /\ Cardinality(ids) = 2
    /\ \A i \in ids : Completed(gen[i])
    /\ \E i \in ids, j \in ids :
          /\ gen[i].outcome = "returned"
          /\ Len(gen[i].yielded) = 2
          /\ gen[i].chunkCount = 2
          /\ gen[j].outcome = "threw"
          /\ gen[j].chunkCount = 0
          /\ Passed(gen[i]) # Passed(gen[j])
          /\ PassedTools(gen[i]) # PassedTools(gen[j])

\* what the provider stub did for an invocation: whether streamText threw,
\* what each channel delivered and whether it ended or threw, what the
\* settlement values settled to, and whether each settled before its timer
ProviderBehaviour(g) ==
    [threw |-> g.providerThrew,
     textStream |-> <<g.textStreamLog, g.textStreamEnded>>,
     fullStream |-> <<g.fullStreamLog, g.fullStreamEnded>>,
     promises |-> g.promises,
     races |-> g.races]

-----------------------------------------------------------------------------
(* Whitespace-only text in the settlement tier *)

WhitespaceOnly == { Str(<<" ">>), Str(<<" ", " ">>) }

\* the invocation's state without the text that settled
WithoutText(g) == [g EXCEPT !.finalText = Undefined, !.promises["text"] = Pending]

WithText(g, text) == [g EXCEPT !.finalText = text, !.promises["text"] = Resolved(text)]

\* C28: in the settlement tier a whitespace-only text behaves as the empty
\* text does. At the first check, whatever toolCalls settles to, the
\* invocation whose final text is whitespace-only takes the step the same
\* invocation takes with the empty final text (same branch, same timer, same
\* raised error); at the re-read, a whitespace-only text leads to the state
\* the empty text leads to; and every fragment yielded from the settlement
\* tier holds a character that is no whitespace.
C28_BlankLikeEmpty ==
    \A i \in ids :
       LET g == gen[i]
       IN /\ (g.pc = "raceToolCalls" /\ g.races["toolCalls"] = "undecided"
                /\ g.finalText \in WhitespaceOnly \cup { Str(<<>>) }) =>
                \A w \in WhitespaceOnly, o \in Outcomes(ToolCallLists) :
                   WithoutText(OnRaceValue(WithText(g, w), "toolCalls", o, now))
                     = WithoutText(OnRaceValue(WithText(g, Str(<<>>)), "toolCalls", o, now))
          /\ (g.pc = "awaitDelayedText" /\ g.promises["delayedText"] = Pending) =>
                \A w \in WhitespaceOnly :
                   OnDelayedText(g, Resolved(w)) = OnDelayedText(g, Resolved(Str(<<>>)))
          /\ BothChannelsEmpty(g) =>
                \A k \in 1..Len(g.yielded) : NonBlank(g.yielded[k])
          /\ (BothChannelsEmpty(g) /\ ResolvedInTime(g, "text")
                /\ g.promises["text"][2] \in WhitespaceOnly
                /\ g.promises["delayedText"] \in { Pending, Resolved(Str(<<>>)), Resolved(Str(<<" ">>)) }) =>
                g.yielded = <<>>

\* the final text and the re-read text were both whitespace-only, tool
\* invocations were reported: nothing was yielded and the "called tools but
\* did not generate text" error was raised
C28_Witness ==
    \E i \in ids :
       /\ Completed(gen[i])
       /\ BothChannelsEmpty(gen[i])
       /\ gen[i].finalText = Str(<<" ">>)
       /\ IsArray(gen[i].finalToolCalls)
       /\ Len(gen[i].finalToolCalls[2]) >= 1
       /\ gen[i].promises["delayedText"] = Resolved(Str(<<" ">>))
       /\ gen[i].yielded = <<>>
       /\ gen[i].outcome = "threw"
       /\ Includes(RaisedMessage(gen[i]), <<"AI SDK called tools but did not generate text. ToolCalls: ">>)

-----------------------------------------------------------------------------
(* The arguments of streamText *)

\* C29: streamText is called with the model handle that the constructor
\* obtained from openai(config.model, {baseURL, apiKey}), the caller's system
\* prompt (undefined when none was given), the assembled message list, the
\* tool mapping, the maxTokens and the temperature of the configuration the
\* service was constructed with, unchanged (undefined and 0 included), and
\* maxSteps 5.
C29_ProviderArguments ==
    \A i \in ids :
       Built(gen[i]) =>
          LET args == gen[i].streamTextArgs[1]
              config == service.attempt[1]
          IN /\ service.state = "constructed"
             /\ args.model = openai(config.model,
                                    [baseURL |-> config.baseURL, apiKey |-> config.apiKey])
             /\ service.factoryCalls
                  = << <<config.model, [baseURL |-> config.baseURL, apiKey |-> config.apiKey]>> >>
             /\ args.system = gen[i].params.systemPrompt
             /\ args.messages = BuildMessages(gen[i].params)
             /\ args.tools = BuildTools(gen[i].params)
             /\ args.maxTokens = config.maxTokens
             /\ args.temperature = config.temperature
             /\ args.maxSteps = 5
             /\ DOMAIN args = {"model", "system", "messages", "tools",
                               "maxTokens", "temperature", "maxSteps"}

\* a service constructed without maxTokens and with temperature 0 was called
\* with a system prompt, two tools and context data
C29_Witness ==
    \E i \in ids :
       /\ Built(gen[i])
       /\ service.attempt[1] # DefaultConfig
       /\ gen[i].streamTextArgs[1].maxTokens = Undefined
       /\ gen[i].streamTextArgs[1].temperature = Num(0)
       /\ gen[i].streamTextArgs[1].system = Str(<<"be", " ", "brief">>)
       /\ Len(gen[i].streamTextArgs[1].messages) >= 4
       /\ gen[i].streamTextArgs[1].tools # Undefined

-----------------------------------------------------------------------------
(* Properties of jsonSchemaToZod *)

\* the schema is undefined, null, no object, not of type "object", or has
\* no properties
NoUsableSchema(schema) ==
    \/ schema \in { Undefined, Null }
    \/ schema[1] # "object"
    \/ schema[2].type # Str(<<"object">>)
    \/ ~Truthy(schema[2].properties)
    \/ ObjectEntries(schema[2].properties) = <<>>

Parses == { k \in 1..Len(calls) : calls[k].fn = "safeParse" }

\* C30: a validator that jsonSchemaToZod returned for a schema that is
\* undefined, null, no object, not of type "object" or without properties
\* accepts every object, whatever its fields; so does the validator the tool
\* mapping holds for a tool declared without a parameter schema.
C30_AcceptAnyObject ==
    \A k \in Parses :
       LET made == calls[calls[k].of]
       IN (NoUsableSchema(made.arg) /\ calls[k].arg[1] = "object") =>
             /\ calls[k].success
             /\ made.validator = AnyObject

\* a validator made from a schema with properties does reject objects, and
\* every validator rejects what is no object
ValidatorsDoReject ==
    \A k \in Parses :
       /\ calls[k].arg[1] # "object" => ~calls[k].success
       /\ (calls[calls[k].of].arg = ObjectSchema
             /\ calls[k].arg = Obj(<< <<<<"symbol">>, Num(1)>>, <<<<"verbose">>, Str(<<"yes">>)>> >>)) =>
             ~calls[k].success

\* the validator of a tool declared without a parameter schema accepted an
\* object with fields
C30_Witness ==
    \E k \in Parses :
       /\ calls[calls[k].of].fn = "tool"
       /\ calls[calls[k].of].arg = Undefined
       /\ calls[k].arg = Obj(<< <<<<"symbol">>, Num(1)>>, <<<<"verbose">>, Str(<<"yes">>)>> >>)
       /\ calls[k].success

-----------------------------------------------------------------------------
(* The secondary tier after an error event *)

\* the error event is the last event read, the deltas before it are what was
\* yielded, the invocation has ended with a raised error, and nothing of the
\* settlement tier has been touched
StoppedAtError(g) ==
    LET log == g.fullStreamLog
    IN /\ \A k \in 1..(Len(log) - 1) : log[k][1] # "error"
       /\ g.yielded = TextDeltasOf(Front(log))
       /\ Completed(g)
       /\ g.outcome = "threw"
       /\ g.throws = 1
       /\ g.reads = <<"textStream", "fullStream">>
       /\ \A n \in TimerNames : g.timers[n].status = "idle"
       /\ g.finishReason = Undefined /\ g.finalText = Undefined /\ g.finalToolCalls = Undefined

\* C31: once the secondary channel has delivered an error event, that event
\* is the last one read, the fragments yielded are the text deltas that
\* preceded it (none, if none did), the remembered error has been raised, and
\* no settlement value has been read and no timer started; from then on no
\* step reads another event or yields another fragment.
C31_StopsAtFirstError ==
    /\ [](\A i \in ids : HasErrorEvent(gen[i].fullStreamLog) => StoppedAtError(gen[i]))
    /\ [][\A i \in ids :
            HasErrorEvent(gen[i].fullStreamLog) =>
               /\ gen'[i].fullStreamLog = gen[i].fullStreamLog
               /\ gen'[i].yielded = gen[i].yielded
               /\ gen'[i].reads = gen[i].reads
               /\ gen'[i].thrown = gen[i].thrown]_vars

\* the first event of the secondary channel was an error event
C31_Witness ==
    \E i \in ids :
       /\ Len(gen[i].fullStreamLog) = 1
       /\ gen[i].fullStreamLog[1][1] = "error"
       /\ gen[i].yielded = <<>>
       /\ gen[i].outcome = "threw"
       /\ gen[i].thrown[1][2].originalError = <<gen[i].fullStreamLog[1][2]>>

-----------------------------------------------------------------------------
(* The settlement races *)

\* the part of an invocation the caller can observe
Observable(g) ==
    [yielded |-> g.yielded, outcome |-> g.outcome, thrown |-> g.thrown,
     throws |-> g.throws, pc |-> g.pc, reads |-> g.reads]

\* C32: a settlement race is decided once, by the value or by its timer,
\* whichever comes first. Decided by the timer, the invocation has raised the
\* timeout error of that value and yielded nothing, and the value settling
\* later changes neither; decided by the value, the timer firing later (it
\* is never cancelled) raises nothing and changes nothing the caller sees.
C32_RaceDecidedOnce ==
    /\ [](\A i \in ids : \A n \in SettlementReads :
            gen[i].races[n] = "timeout" =>
               /\ gen[i].outcome = "threw"
               /\ gen[i].yielded = <<>>
               /\ gen[i].throws = 1
               /\ Includes(RaisedMessage(gen[i]), TimeoutMessage(n)))
    /\ [][\A i \in ids : \A n \in SettlementReads :
            /\ gen[i].races[n] # "undecided" => gen'[i].races[n] = gen[i].races[n]
            /\ (gen[i].races[n] = "undecided" /\ gen'[i].races[n] = "value") =>
                  (gen[i].promises[n] = Pending /\ gen'[i].promises[n] # Pending
                     /\ gen[i].timers[n].status = "pending")
            /\ (gen[i].races[n] = "undecided" /\ gen'[i].races[n] = "timeout") =>
                  (gen[i].promises[n] = Pending
                     /\ gen[i].timers[n].status = "pending" /\ gen'[i].timers[n].status = "fired")
            /\ (gen[i].races[n] = "timeout" /\ gen'[i].promises[n] # gen[i].promises[n]) =>
                  Observable(gen'[i]) = Observable(gen[i])
            /\ (gen[i].races[n] = "value" /\ gen'[i].timers[n].status # gen[i].timers[n].status) =>
                  Observable(gen'[i]) = Observable(gen[i])]_vars

\* the text timer fired first and result.text resolved to a text afterwards;
\* finishReason had resolved first and its timer fired later
C32_Witness ==
    \E i \in ids :
       /\ gen[i].races["finishReason"] = "value"
       /\ gen[i].timers["finishReason"].status = "fired"
       /\ gen[i].races["text"] = "timeout"
       /\ gen[i].promises["text"] = Resolved(Str(<<" ", "Final", " ", "text">>))
       /\ gen[i].yielded = <<>>
       /\ Includes(RaisedMessage(gen[i]), TimeoutMessage("text"))

\* the race of a value was won by the value, and the value resolved
Won(g, name) == g.races[name] = "value" /\ g.promises[name][1] = "resolved"

\* the race of a value was lost: its timer fired first, or the value rejected
Failed(g, name) ==
    \/ g.races[name] = "timeout"
    \/ g.races[name] = "value" /\ g.promises[name][1] = "rejected"

Untouched(g, name) ==
    /\ g.timers[name].status = "idle"
    /\ g.promises[name] = Pending
    /\ g.races[name] = "undecided"
    /\ name \notin ReadsOf(g)

\* C33: the settlement races run in the order finishReason, text, toolCalls.
\* The timer of text is started, and text read, only once the finishReason
\* race was won, and not before the finishReason timer was started; likewise
\* toolCalls after text. When a race failed by rejection or timeout, the
\* later values were never read, their timers never started, and the
\* invocation has raised an error.
C33_RacesInSequence ==
    \A i \in ids :
       LET g == gen[i]
       IN /\ ~Untouched(g, "text") =>
                (Won(g, "finishReason")
                   /\ g.timers["finishReason"].started <= g.timers["text"].started)
          /\ ~Untouched(g, "toolCalls") =>
                (Won(g, "text") /\ g.timers["text"].started <= g.timers["toolCalls"].started)
          /\ Failed(g, "finishReason") =>
                (Untouched(g, "text") /\ Untouched(g, "toolCalls") /\ g.outcome = "threw")
          /\ Failed(g, "text") => (Untouched(g, "toolCalls") /\ g.outcome = "threw")
          /\ Failed(g, "toolCalls") => g.outcome = "threw"
          /\ Cardinality({ n \in SettlementReads :
                             g.races[n] = "undecided" /\ g.timers[n].status = "pending" }) <= 1

\* finishReason resolved, then result.text rejected: toolCalls was never read
C33_Witness ==
    \E i \in ids :
       /\ Won(gen[i], "finishReason")
       /\ gen[i].races["text"] = "value"
       /\ gen[i].promises["text"][1] = "rejected"
       /\ Untouched(gen[i], "toolCalls")
       /\ gen[i].reads = <<"textStream", "fullStream", "finishReason", "text">>
       /\ gen[i].outcome = "threw"

\* C34: a fragment comes out of the settlement tier only when finishReason,
\* text and toolCalls each won its race with a resolved value; when the
\* finishReason race or the toolCalls race failed (rejection or timeout) the
\* invocation has yielded nothing and raised one error, also when the final
\* text had resolved to a text that is not blank.
C34_TextOnlyAfterAllSettled ==
    \A i \in ids :
       LET g == gen[i]
       IN /\ (BothChannelsEmpty(g) /\ g.yielded # <<>>) =>
                \A n \in SettlementReads : Won(g, n)
          /\ (Failed(g, "finishReason") \/ Failed(g, "toolCalls")) =>
                /\ g.yielded = <<>>
                /\ g.outcome = "threw"
                /\ g.throws = 1
                /\ g.pc = "completed"

\* the final text had resolved to " Final text" and the toolCalls timer fired
C34_Witness ==
    \E i \in ids :
       /\ gen[i].finalText = Str(<<" ", "Final", " ", "text">>)
       /\ gen[i].races["toolCalls"] = "timeout"
       /\ gen[i].yielded = <<>>
       /\ gen[i].outcome = "threw"

-----------------------------------------------------------------------------
(* The finish-reason field of the error messages *)

NoTextAfterToolsHeadline == <<"AI SDK called tools but did not generate text. ToolCalls: ">>

EmptyStreamHeadline == <<"AI SDK stream completed without generating any chunks or text. ">>

SaysNoTextOrEmptyStream(g) ==
    /\ g.thrown # <<>>
    /\ \/ Includes(RaisedMessage(g), NoTextAfterToolsHeadline)
       \/ Includes(RaisedMessage(g), EmptyStreamHeadline)

\* the message has a finish-reason field, and wherever it has one (the
\* no-text message is repeated inside the message of catch (delayedError))
\* the field reads tag
FinishReasonFieldIs(message, tag) ==
    /\ \E k \in 1..Len(message) : message[k] = ", FinishReason: "
    /\ \A k \in 1..Len(message) :
          message[k] = ", FinishReason: " =>
             /\ k + Len(tag) <= Len(message)
             /\ SubSeq(message, k + 1, k + Len(tag)) = tag
             /\ \/ k + Len(tag) = Len(message)
                \/ message[k + Len(tag) + 1] \in { ", ToolCalls: ", ", Error: " }

\* C35: when the raised message is the no-text-after-tools or the
\* empty-stream message, finishReason had resolved before its timer fired and
\* the finish-reason field of the message is the resolved tag if that is
\* truthy and "unknown" if it is undefined or the empty string; an
\* invocation whose finishReason race was decided by the timer has raised the
\* timeout error and neither of these messages.
C35_FinishReasonField ==
    \A i \in ids :
       LET g == gen[i]
           resolved == g.promises["finishReason"][2]
       IN /\ SaysNoTextOrEmptyStream(g) =>
                /\ Won(g, "finishReason")
                /\ FinishReasonFieldIs(RaisedMessage(g),
                                       IF Truthy(resolved) THEN resolved[2] ELSE <<"unknown">>)
          /\ g.races["finishReason"] = "timeout" =>
                /\ g.thrown # <<>>
                /\ ~SaysNoTextOrEmptyStream(g)
                /\ Includes(RaisedMessage(g), TimeoutMessage("finishReason"))

\* finishReason resolved to the empty string, tools were called, no text came
C35_Witness ==
    \E i \in ids :
       /\ gen[i].promises["finishReason"] = Resolved(Str(<<>>))
       /\ gen[i].thrown # <<>>
       /\ Includes(RaisedMessage(gen[i]), NoTextAfterToolsHeadline)
       /\ Includes(RaisedMessage(gen[i]), <<", FinishReason: ", "unknown">>)

-----------------------------------------------------------------------------
(* A primary channel that throws *)

\* the provider threw while the primary channel was being read
PrimaryThrew(g) ==
    /\ g.providerThrew # <<>>
    /\ "textStream" \in ReadsOf(g)
    /\ ~g.textStreamEnded

\* C36: when the primary channel threw after delivering k fragments (k = 0
\* included), the caller has received exactly those k fragments and then one
\* classified error made from what was thrown by the outer catch (the request
\* shape in its context); the secondary channel and the settlement values
\* were never read and no timer was started.
C36_PrimaryThrowNoFallback ==
    \A i \in ids :
       LET g == gen[i]
       IN PrimaryThrew(g) =>
             LET e == g.providerThrew[1]
             IN /\ g.yielded = g.textStreamLog
                /\ Completed(g)
                /\ g.outcome = "threw"
                /\ g.throws = 1
                /\ InstanceOfAiSdkError(g.thrown[1])
                /\ g.thrown[1][2].originalError = <<e>>
                /\ RaisedMessage(g) = (IF InstanceOfError(e) THEN e[2].message ELSE StringOf(e))
                /\ g.thrown[1][2].context # <<>>
                /\ Includes(g.thrown[1][2].context[1], <<"AI SDK stream error. ">>)
                /\ g.reads = <<"textStream">>
                /\ g.fullStreamLog = <<>>
                /\ \A n \in TimerNames : g.timers[n].status = "idle"
                /\ \A n \in SettlementReads : g.promises[n] = Pending

\* the primary channel threw before its first fragment
C36_Witness ==
    \E i \in ids :
       /\ PrimaryThrew(gen[i])
       /\ gen[i].textStreamLog = <<>>
       /\ gen[i].yielded = <<>>
       /\ gen[i].outcome = "threw"
       /\ gen[i].reads = <<"textStream">>

-----------------------------------------------------------------------------
(* No normal completion without a fragment *)

\* C37: an invocation that has completed normally has yielded at least one
\* fragment, and an invocation that has ended without having yielded a
\* fragment has ended with a raised error.
C37_NoSilentCompletion ==
    \A i \in ids :
       LET g == gen[i]
       IN /\ (Completed(g) /\ g.outcome = "returned") => Len(g.yielded) >= 1
          /\ (Completed(g) /\ g.yielded = <<>>) =>
                (g.outcome = "threw" /\ g.thrown # <<>> /\ InstanceOfAiSdkError(g.thrown[1]))

\* both channels were silent, no text and no tool invocation came: the
\* invocation ended with the empty-stream error
C37_Witness ==
    \E i \in ids :
       /\ Completed(gen[i])
       /\ BothChannelsEmpty(gen[i])
       /\ gen[i].fullStreamLog = <<>>
       /\ gen[i].yielded = <<>>
       /\ gen[i].outcome = "threw"
       /\ gen[i].promises["toolCalls"] = Resolved(Undefined)
       /\ Includes(RaisedMessage(gen[i]), EmptyStreamHeadline)

-----------------------------------------------------------------------------
(* Events of the secondary channel that are neither text deltas nor errors *)

OtherEvents(log) == { k \in 1..Len(log) : log[k][1] \notin {"text-delta", "error"} }

\* C38: while the secondary channel is read, the fragments yielded and the
\* fragment count are those of its text-delta events alone; an event of
\* another type that is no error yields nothing and is not counted. When the
\* channel has ended having carried no text delta and no error event, the
\* fragment count is still zero and the settlement tier has been entered:
\* finishReason has been read.
C38_OnlyTextDeltasCount ==
    \A i \in ids :
       LET g == gen[i]
           log == g.fullStreamLog
       IN /\ (PrimaryEmpty(g) /\ ~g.fullStreamEnded /\ g.pc \in {"fullStream", "yieldFullStream"}) =>
                /\ g.yielded = TextDeltasOf(log)
                /\ g.chunkCount = Len(TextDeltasOf(log))
          /\ (PrimaryEmpty(g) /\ TextDeltasOf(log) # <<>> /\ ~HasErrorEvent(log)) =>
                g.yielded = TextDeltasOf(log)
          /\ (PrimaryEmpty(g) /\ g.fullStreamEnded /\ TextDeltasOf(log) = <<>>
                /\ ~HasErrorEvent(log)) =>
                /\ "finishReason" \in ReadsOf(g)
                /\ g.timers["finishReason"].status # "idle"
                /\ g.pc = "raceFinishReason" => (g.chunkCount = 0 /\ g.yielded = <<>>)

\* the secondary channel carried two events of another type and ended: the
\* finishReason race is open
C38_Witness ==
    \E i \in ids :
       /\ PrimaryEmpty(gen[i])
       /\ gen[i].fullStreamEnded
       /\ Cardinality(OtherEvents(gen[i].fullStreamLog)) = 2
       /\ gen[i].pc = "raceFinishReason"
       /\ gen[i].chunkCount = 0
       /\ gen[i].yielded = <<>>

-----------------------------------------------------------------------------
(* The history in the message list *)

HistoryOf(g) ==
    IF g.params.conversationHistory = Undefined THEN <<>> ELSE g.params.conversationHistory[2]

\* C39: the first |h| turns of the message list passed to the provider are
\* the messages of the history h, one for one and in order: turn k has role
\* user when h[k] is of type USER and role assistant for any other type, and
\* its content is the text of h[k], unchanged. Assembling the list leaves the
\* request as the caller passed it: the history and contextData are the same
\* after the step as before.
C39_HistoryMappedInOrder ==
    /\ [](\A i \in ids :
            Built(gen[i]) =>
               LET h == HistoryOf(gen[i])
               IN /\ Len(Passed(gen[i])) >= Len(h)
                  /\ \A k \in 1..Len(h) :
                        /\ Passed(gen[i])[k].role
                             = (IF h[k].type = <<"user">> THEN "user" ELSE "assistant")
                        /\ Passed(gen[i])[k].content = <<"string", h[k].text>>
                  /\ gen[i].contextDataAtBuild = gen[i].params.contextData)
    /\ [][\A i \in ids : gen'[i].params = gen[i].params]_vars

\* a history of a message of another kind and a USER message was assembled,
\* with context data
C39_Witness ==
    \E i \in ids :
       /\ Built(gen[i])
       /\ HistoryOf(gen[i]) = <<OtherMessage, UserMessage>>
       /\ Passed(gen[i])[1] = [role |-> "assistant", content |-> Str(<<" ", "note", " ">>)]
       /\ Passed(gen[i])[2] = [role |-> "user", content |-> Str(<<"hi">>)]
       /\ Truthy(gen[i].params.contextData)
       /\ Len(Passed(gen[i])) > 3

====
